---- MODULE Spec2Model ----
(***************************************************************************)
(* SVG3-NEXUS (src/svg3-nexus-system.js): the ECS World with its query     *)
(* cache, the system scheduler (World.update) and the render pass          *)
(* pipeline (SVG3NexusRenderer.render).                                    *)
(***************************************************************************)
EXTENDS Integers, Sequences, FiniteSets, TLC

(***************************************************************************)
(* Bounds of the model.                                                    *)
(***************************************************************************)
MaxEntities == 2
MaxQueries == 2
MaxFrames == 2
MaxFrameEntities == 2
MaxRenderEntities == 3
MaxUploads == 2
MaxDistance == 20000
MaxGeometries == 2

VARIABLES
  entities,      \* World.entities: the stored entity ids, in Map insertion order
  objs,          \* every Entity object constructed so far: id -> [active, components]
  nextEntityId,  \* World.nextEntityId
  queries,       \* World.queries: the cached Query objects, in Map insertion order
  createdIds,    \* history: the ids returned by World.createEntity, in call order
  systems,       \* World.systems: [name, priority, enabled] in Map insertion order
  time,          \* World.time: [elapsed, deltaTime, frameCount]
  pc,            \* where World.update stands: idle, loop, callback, returned, thrown
  sortedSystems, \* update's local sortedSystems: the entries sorted at the call
  idx,           \* update's position in sortedSystems
  invoked,       \* history: the names whose callback this update has invoked
  timeAtCall,    \* history: World.time as it was when this update was called
  lastTime,      \* startAnimationLoop's lastTime (-1: the loop is not started)
  startView,     \* history: the entities of query(['transform']) at the call
  view,          \* what the running callback read from query(['transform'])
  geometries,    \* GeometryLibrary.geometries: id -> [indexCount]
  geometryBuffers, \* SVG3NexusRenderer.geometryBuffers: id -> [indexCount]
  camera,        \* SVG3NexusRenderer.camera.position
  gl,            \* the state of the WebGL context
  drawLog,       \* history: the draw calls of the last render(), in order
  renderLists,   \* history: opaqueList and transparentList of the last render()
  renderPc,      \* "none": no render() of the scene as it is now; "returned":
                 \* render() has returned; "hung": render() is in a loop for ever
  nextId,        \* GeometryLibrary.nextId
  probe          \* history: the last call of a function of the library or of
                 \* the module's helpers: [op, ...arguments, ...results]

worldVars == <<entities, objs, nextEntityId, queries, createdIds>>

schedVars == <<systems, time, pc, sortedSystems, idx, invoked, timeAtCall,
               lastTime, startView, view>>

renderVars == <<geometries, geometryBuffers, camera, gl, drawLog,
                renderLists, renderPc>>

libraryVars == <<nextId, probe>>

vars == <<entities, objs, nextEntityId, queries, createdIds,
          systems, time, pc, sortedSystems, idx, invoked, timeAtCall,
          lastTime, startView, view,
          geometries, geometryBuffers, camera, gl, drawLog,
          renderLists, renderPc, nextId, probe>>

(***************************************************************************)
(* Helpers                                                                 *)
(***************************************************************************)
Range(s) == {s[i] : i \in DOMAIN s}

\* the component types the World operations of the model attach and remove
WorldTypes == {"transform", "mesh"}

\* the argument arrays World.query is called with (order matters to the key)
QueryArgs ==
  { <<>>, <<"transform">>, <<"transform", "mesh">>, <<"mesh", "transform">> }

ExcludedArgs == { <<>>, <<"mesh">> }

\* the component a World.addComponent call of the model attaches
NewComponent(type) == [type |-> type]

(***************************************************************************)
(* class Entity                                                            *)
(***************************************************************************)
\* new Entity(id)
NewEntity(id) == [id |-> id, active |-> TRUE, components |-> <<>>]

\* Entity.hasComponent(type)
hasComponent(e, type) == type \in DOMAIN e.components

\* Entity.addComponent(type, component): Map.set
EntityAddComponent(e, type, component) ==
  [e EXCEPT !.components =
     [t \in (DOMAIN e.components) \cup {type} |->
        IF t = type THEN component ELSE e.components[t]]]

\* Entity.removeComponent(type): Map.delete
EntityRemoveComponent(e, type) ==
  [e EXCEPT !.components =
     [t \in (DOMAIN e.components) \ {type} |-> e.components[t]]]

(***************************************************************************)
(* class Query                                                             *)
(***************************************************************************)
\* the body of the loop of Query.rebuild: does entity e belong to the query
Matches(required, excluded, e) ==
  /\ e.active
  /\ (required = {} \/ \A type \in required : hasComponent(e, type))
  /\ ~ (\E type \in excluded : hasComponent(e, type))

\* Query.rebuild(): the new entities list, in the order of world.entities
Rebuild(q, ents, os) ==
  [q EXCEPT !.entities =
     SelectSeq(ents, LAMBDA id : Matches(q.required, q.excluded, os[id]))]

\* new Query(world, required, excluded)
NewQuery(key, required, excluded, ents, os) ==
  Rebuild([key |-> key, required |-> Range(required),
           excluded |-> Range(excluded), entities |-> <<>>], ents, os)

(***************************************************************************)
(* class World                                                             *)
(***************************************************************************)
\* World.invalidateQueries(): every cached query is rebuilt
InvalidateNothing(qs, ents, os) == qs

InvalidateQueries(qs, ents, os) ==
  [i \in DOMAIN qs |-> Rebuild(qs[i], ents, os)]

\* the id World.createEntity gives the new entity: this.nextEntityId++
ReuseFreeId(next, ents) ==
  CHOOSE id \in 1..next : id \notin Range(ents) /\
                          \A j \in 1..(id - 1) : j \in Range(ents)

NewEntityId(next, ents) == next

\* the cache key of World.query: JSON.stringify([required, excluded]); two keys
\* are equal iff the two arrays are equal element by element
QueryKey(required, excluded) == <<required, excluded>>

\* index of the cache entry with this key, 0 when there is none
QueryIndex(qs, key) ==
  IF \E i \in DOMAIN qs : qs[i].key = key
  THEN CHOOSE i \in DOMAIN qs : qs[i].key = key
  ELSE 0

\* World.createEntity()
WorldCreateEntity(max) ==
  /\ nextEntityId <= max
  /\ LET id == NewEntityId(nextEntityId, entities)
         os == [i \in (DOMAIN objs) \cup {id} |->
                  IF i = id THEN NewEntity(id) ELSE objs[i]]
         es == IF id \in Range(entities) THEN entities ELSE Append(entities, id)
     IN /\ nextEntityId' = nextEntityId + 1
        /\ objs' = os
        /\ entities' = es
        /\ queries' = InvalidateQueries(queries, es, os)
        /\ createdIds' = Append(createdIds, id)

\* this.entities.delete(id)
KeepEntity(ents, id) == ents

DeleteEntity(ents, id) == SelectSeq(ents, LAMBDA x : x # id)

\* World.destroyEntity(entityOrId); an Entity argument is resolved to its id
WorldDestroyEntity(id) ==
  /\ IF id \in Range(entities)
     THEN LET os == [objs EXCEPT ![id].active = FALSE]
              es == DeleteEntity(entities, id)
          IN /\ objs' = os
             /\ entities' = es
             /\ queries' = InvalidateQueries(queries, es, os)
     ELSE UNCHANGED <<objs, entities, queries>>
  /\ UNCHANGED <<nextEntityId, createdIds>>

\* World.addComponent(entity, type, component); entity is any Entity object
\* the caller holds, stored or already destroyed
WorldAddComponent(id, type) ==
  /\ id \in DOMAIN objs
  /\ LET os == [objs EXCEPT ![id] = EntityAddComponent(@, type, NewComponent(type))]
     IN /\ objs' = os
        /\ queries' = InvalidateQueries(queries, entities, os)
  /\ UNCHANGED <<entities, nextEntityId, createdIds>>

\* World.removeComponent(entity, type)
WorldRemoveComponent(id, type) ==
  /\ id \in DOMAIN objs
  /\ LET os == [objs EXCEPT ![id] = EntityRemoveComponent(@, type)]
     IN /\ objs' = os
        /\ queries' = InvalidateQueries(queries, entities, os)
  /\ UNCHANGED <<entities, nextEntityId, createdIds>>

\* the cache after World.query(required, excluded): the entry is created on a
\* miss
WithQuery(qs, required, excluded, ents, os) ==
  LET key == QueryKey(required, excluded)
  IN IF QueryIndex(qs, key) = 0
     THEN Append(qs, NewQuery(key, required, excluded, ents, os))
     ELSE qs

\* World.query(required, excluded)
WorldQuery(required, excluded) ==
  /\ QueryIndex(queries, QueryKey(required, excluded)) = 0 => Len(queries) < MaxQueries
  /\ queries' = WithQuery(queries, required, excluded, entities, objs)
  /\ UNCHANGED <<entities, objs, nextEntityId, createdIds>>


(***************************************************************************)
(* World: the system registry and update                                   *)
(***************************************************************************)
SystemNames == {"a", "b", "c"}

\* the priorities systems are registered with (0 is addSystem's default,
\* 100 the priority of the renderer's system)
Priorities == {0, 100}

\* the deltaTime values a caller passes to World.update
DeltaTimes == {-1, 0, 1}

\* the steps between two timestamps requestAnimationFrame hands to animate
FrameSteps == {0, 1}

IndexOfName(syss, name) ==
  IF \E i \in DOMAIN syss : syss[i].name = name
  THEN CHOOSE i \in DOMAIN syss : syss[i].name = name
  ELSE 0

\* World.addSystem(name, updateFn, priority): Map.set keeps the place of a
\* name that is already registered and replaces its value
MapSetSystem(syss, name, priority) ==
  LET system == [name |-> name, priority |-> priority, enabled |-> TRUE]
      i == IndexOfName(syss, name)
  IN IF i = 0 THEN Append(syss, system) ELSE [syss EXCEPT ![i] = system]

\* Array.prototype.sort((a, b) => b[1].priority - a[1].priority) is stable:
\* insert x behind every entry whose priority is >= its own
InsertByPriority(sorted, x) ==
  LET k == Cardinality({i \in DOMAIN sorted : sorted[i].priority >= x.priority})
  IN SubSeq(sorted, 1, k) \o <<x>> \o SubSeq(sorted, k + 1, Len(sorted))

RECURSIVE SortPrefix(_, _)
SortPrefix(syss, n) ==
  IF n = 0 THEN <<>> ELSE InsertByPriority(SortPrefix(syss, n - 1), syss[n])

SortByPriority(syss) == SortPrefix(syss, Len(syss))

\* the time fields after the first three statements of update
AssignElapsed(t, deltaTime) ==
  [elapsed |-> deltaTime,
   deltaTime |-> deltaTime,
   frameCount |-> t.frameCount + 1]

AdvanceTime(t, deltaTime) ==
  [elapsed |-> t.elapsed + deltaTime,
   deltaTime |-> deltaTime,
   frameCount |-> t.frameCount + 1]

\* the entities a callback reads from world.query(['transform']): update hands
\* the callback the World itself, so it reads the live cache entry
TransformKey == QueryKey(<<"transform">>, <<>>)

SnapshotView(live, atCall) == atCall

CallbackView(live, atCall) == live

TransformView(qs) ==
  LET i == QueryIndex(qs, TransformKey)
  IN IF i = 0 THEN <<>> ELSE qs[i].entities

\* World.addSystem
AddSystem ==
  /\ pc = "idle"
  /\ \E name \in SystemNames, priority \in Priorities :
       systems' = MapSetSystem(systems, name, priority)
  /\ UNCHANGED <<time, pc, sortedSystems, idx, invoked, timeAtCall, lastTime,
                 startView, view>>
  /\ UNCHANGED worldVars
  /\ UNCHANGED renderVars
  /\ UNCHANGED libraryVars

\* World.removeSystem
RemoveSystem ==
  /\ pc = "idle"
  /\ \E name \in SystemNames :
       systems' = SelectSeq(systems, LAMBDA s : s.name # name)
  /\ UNCHANGED <<time, pc, sortedSystems, idx, invoked, timeAtCall, lastTime,
                 startView, view>>
  /\ UNCHANGED worldVars
  /\ UNCHANGED renderVars
  /\ UNCHANGED libraryVars

\* World.setSystemEnabled
SetSystemEnabled ==
  /\ pc = "idle"
  /\ \E name \in SystemNames, enabled \in BOOLEAN :
       systems' = [i \in DOMAIN systems |->
                     IF systems[i].name = name
                     THEN [systems[i] EXCEPT !.enabled = enabled]
                     ELSE systems[i]]
  /\ UNCHANGED <<time, pc, sortedSystems, idx, invoked, timeAtCall, lastTime,
                 startView, view>>
  /\ UNCHANGED worldVars
  /\ UNCHANGED renderVars
  /\ UNCHANGED libraryVars

\* World.update(deltaTime), up to the loop over sortedSystems
UpdateCall(deltaTime) ==
  /\ pc = "idle"
  /\ time.frameCount < MaxFrames
  /\ time' = AdvanceTime(time, deltaTime)
  /\ timeAtCall' = time
  /\ sortedSystems' = SortByPriority(systems)
  /\ idx' = 1
  /\ invoked' = <<>>
  /\ startView' = TransformView(queries)
  /\ view' = <<>>
  /\ pc' = "loop"
  /\ UNCHANGED systems
  /\ UNCHANGED worldVars
  /\ UNCHANGED renderVars
  /\ UNCHANGED libraryVars

\* a caller of World.update
Update ==
  /\ \E deltaTime \in DeltaTimes : UpdateCall(deltaTime)
  /\ UNCHANGED lastTime

\* SVG3NexusRenderer.startAnimationLoop(): lastTime = performance.now(); the
\* model counts the timestamps from that instant, in seconds
StartAnimationLoop ==
  /\ pc = "idle"
  /\ lastTime = -1
  /\ lastTime' = 0
  /\ UNCHANGED <<systems, time, pc, sortedSystems, idx, invoked, timeAtCall,
                 startView, view>>
  /\ UNCHANGED worldVars
  /\ UNCHANGED renderVars
  /\ UNCHANGED libraryVars

\* animate(currentTime), the requestAnimationFrame callback of the loop; the
\* timestamps of successive frames do not decrease
Animate ==
  /\ lastTime >= 0
  /\ \E step \in FrameSteps :
       LET currentTime == lastTime + step
           deltaTime == currentTime - lastTime
       IN /\ lastTime' = currentTime
          /\ UpdateCall(deltaTime)

\* one turn of `for (const [name, system] of sortedSystems)`, up to the call
\* of an enabled system's callback
LoopStep ==
  /\ pc = "loop"
  /\ idx <= Len(sortedSystems)
  /\ IF sortedSystems[idx].enabled
     THEN /\ pc' = "callback"
          /\ invoked' = Append(invoked, sortedSystems[idx].name)
          /\ view' = CallbackView(TransformView(queries), startView)
          /\ UNCHANGED idx
     ELSE /\ idx' = idx + 1
          /\ UNCHANGED <<pc, invoked, view>>
  /\ UNCHANGED <<systems, time, sortedSystems, timeAtCall, lastTime, startView>>
  /\ UNCHANGED worldVars
  /\ UNCHANGED renderVars
  /\ UNCHANGED libraryVars

\* the callback returns
CallbackReturn ==
  /\ pc = "callback"
  /\ idx' = idx + 1
  /\ pc' = "loop"
  /\ UNCHANGED <<systems, time, sortedSystems, invoked, timeAtCall, lastTime,
                 startView, view>>
  /\ UNCHANGED worldVars
  /\ UNCHANGED renderVars
  /\ UNCHANGED libraryVars

\* the callback throws: update has no try/catch, the exception leaves update
CallbackThrow ==
  /\ pc = "callback"
  /\ pc' = "thrown"
  /\ UNCHANGED <<systems, time, sortedSystems, idx, invoked, timeAtCall,
                 lastTime, startView, view>>
  /\ UNCHANGED worldVars
  /\ UNCHANGED renderVars
  /\ UNCHANGED libraryVars

\* the loop is over: return this
UpdateReturn ==
  /\ pc = "loop"
  /\ idx > Len(sortedSystems)
  /\ pc' = "returned"
  /\ UNCHANGED <<systems, time, sortedSystems, idx, invoked, timeAtCall,
                 lastTime, startView, view>>
  /\ UNCHANGED worldVars
  /\ UNCHANGED renderVars
  /\ UNCHANGED libraryVars

\* control is back at the caller of update; update's locals are gone
UpdateExit ==
  /\ pc \in {"returned", "thrown"}
  /\ pc' = "idle"
  /\ sortedSystems' = <<>>
  /\ idx' = 0
  /\ invoked' = <<>>
  /\ timeAtCall' = time
  /\ startView' = <<>>
  /\ view' = <<>>
  /\ UNCHANGED <<systems, time, lastTime>>
  /\ UNCHANGED worldVars
  /\ UNCHANGED renderVars
  /\ UNCHANGED libraryVars

(***************************************************************************)
(* class Matrix4: a matrix is the flat array of its 16 numbers             *)
(***************************************************************************)
\* the number a Float32Array element keeps when n is stored in it: n itself
\* below 2^24, else the nearest number with a 24-bit significand, ties to even
Ulp(m) ==
  IF m < 33554432 THEN 2 ELSE IF m < 67108864 THEN 4
  ELSE IF m < 134217728 THEN 8 ELSE IF m < 268435456 THEN 16
  ELSE IF m < 536870912 THEN 32 ELSE IF m < 1073741824 THEN 64 ELSE 128

\* the multiple of u nearest to m, the even multiple of two equally near
NearestEven(m, u) ==
  IF 2 * (m % u) > u \/ (2 * (m % u) = u /\ (m \div u) % 2 = 1)
  THEN ((m \div u) + 1) * u
  ELSE (m \div u) * u

Float32(n) ==
  IF n < 16777216 /\ n > -16777216 THEN n
  ELSE IF n < 0 THEN - NearestEven(-n, Ulp(-n))
  ELSE NearestEven(n, Ulp(n))

\* result[i*4+j] after k turns of the inner loop of Matrix4.multiply:
\* result[i*4+j] = 0, then result[i*4+j] += a[i*4+k] * b[k*4+j], each sum
\* stored in the Float32Array
RECURSIVE SumOfProducts(_, _, _, _, _)
SumOfProducts(a, b, i, j, k) ==
  IF k = 0 THEN 0
  ELSE Float32(SumOfProducts(a, b, i, j, k - 1)
               + a[i * 4 + k] * b[(k - 1) * 4 + j + 1])

\* Matrix4.multiply(a, b): the n-th number of the array is result[i*4+j]
\* for i = (n - 1) \div 4 and j = (n - 1) % 4
Matrix4Multiply(a, b) ==
  LET result == [n \in 1..16 |->
                   SumOfProducts(a, b, (n - 1) \div 4, (n - 1) % 4, 4)]
  IN SubSeq(result, 1, 16)

\* Matrix4.translate(x, y, z)
Matrix4Translate(x, y, z) ==
  <<1, 0, 0, 0,  0, 1, 0, 0,  0, 0, 1, 0,  x, y, z, 1>>

\* Matrix4.scale(x, y, z)
Matrix4Scale(x, y, z) ==
  <<x, 0, 0, 0,  0, y, 0, 0,  0, 0, z, 0,  0, 0, 0, 1>>

\* Math.cos and Math.sin; the angles of the model are whole quarter turns
Cos(quarters) == <<1, 0, -1, 0>>[(quarters % 4) + 1]

Sin(quarters) == <<0, 1, 0, -1>>[(quarters % 4) + 1]

\* Matrix4.rotationY(angle)
Matrix4RotationY(angle) ==
  LET c == Cos(angle)
      sn == Sin(angle)
  IN <<c, 0, sn, 0,  0, 1, 0, 0,  -sn, 0, c, 0,  0, 0, 0, 1>>

\* Matrix4.rotationX(angle)
Matrix4RotationX(angle) ==
  LET c == Cos(angle)
      sn == Sin(angle)
  IN <<1, 0, 0, 0,  0, c, -sn, 0,  0, sn, c, 0,  0, 0, 0, 1>>

\* Matrix4.rotationZ(angle)
Matrix4RotationZ(angle) ==
  LET c == Cos(angle)
      sn == Sin(angle)
  IN <<c, -sn, 0, 0,  sn, c, 0, 0,  0, 0, 1, 0,  0, 0, 0, 1>>

(***************************************************************************)
(* Components as the renderer reads them                                   *)
(***************************************************************************)
\* new Transform(x, y, z) with rotation, scale and parent set; parent 0 is null
NewTransform(position, rotation, scale, parent) ==
  [position |-> position, rotation |-> rotation, scale |-> scale,
   parent |-> parent]

\* new Mesh(geometryId, null)
NewMesh(geometryId) == [geometryId |-> geometryId, visible |-> TRUE]

\* a Material with the fields the renderer reads; opacity in hundredths,
\* textureImage "none", "image" or "tainted" (an image texImage2D refuses),
\* glTexture 0 while material._glTexture is unset; uploads is history: how
\* often the renderer called createTexture and texImage2D for this material
NewMaterial(isSky, isShadow, transparent, opacity, textureImage, color) ==
  [isSky |-> isSky, isShadow |-> isShadow, transparent |-> transparent,
   opacity |-> opacity, doubleSided |-> FALSE, textureImage |-> textureImage,
   glTexture |-> 0, color |-> color, uploads |-> 0]

White == <<1, 1, 1>>

Black == <<0, 0, 0>>

\* new Material(color, options): the constructor reads metalness, roughness,
\* emissive, emissiveIntensity, isGrass, doubleSided, opacity and transparent
\* from options and nothing else; isSky, isShadow, textureImage and _glTexture
\* are not set by it (undefined, read as false by the renderer).
\* hasTransparent says whether options carries a transparent key
Material(color, options) ==
  [isSky |-> FALSE, isShadow |-> FALSE,
   transparent |-> IF options.hasTransparent THEN options.transparent
                   ELSE options.opacity < 100,
   opacity |-> options.opacity, doubleSided |-> options.doubleSided,
   textureImage |-> "none", glTexture |-> 0, color |-> color, uploads |-> 0]

\* the options of the shadow material of the demo:
\* { opacity: 0.85, transparent: true, doubleSided: true, isShadow: true }
DemoShadowOptions ==
  [opacity |-> 85, hasTransparent |-> TRUE, transparent |-> TRUE,
   doubleSided |-> TRUE, isShadow |-> TRUE]

\* 36 indices: GeometryLibrary.createBox
BoxIndexCount == 36

(***************************************************************************)
(* class SVG3NexusRenderer                                                 *)
(***************************************************************************)
\* computeLocalModel(tr) of render and renderEntity
computeLocalModel(tr) ==
  LET m0 == Matrix4Translate(tr.position[1], tr.position[2], tr.position[3])
      m1 == Matrix4Multiply(m0, Matrix4RotationX(tr.rotation[1]))
      m2 == Matrix4Multiply(m1, Matrix4RotationY(tr.rotation[2]))
      m3 == Matrix4Multiply(m2, Matrix4RotationZ(tr.rotation[3]))
  IN Matrix4Multiply(m3, Matrix4Scale(tr.scale[1], tr.scale[2], tr.scale[3]))

\* a position, scale or colour that is no array (null, a number the animation
\* system assigned from a track of numbers, a string like '#ffffff'): the
\* arrays of the model have three numbers, the empty tuple stands for these
NotIterable == <<>>

\* Matrix4.translate(...tr.position) and Matrix4.scale(...tr.scale) throw a
\* TypeError when the value spread is not iterable
SpreadThrows(tr) == tr.position = NotIterable \/ tr.scale = NotIterable

\* the matrix argument of a call whose own computeLocalModel threw
NoMatrix == <<>>

\* the product the other way round
ChildTimesParent(parentLocal, modelMatrix) ==
  Matrix4Multiply(modelMatrix, parentLocal)

\* modelMatrix = Matrix4.multiply(parentLocal, modelMatrix)
ComposeParent(parentLocal, modelMatrix) ==
  Matrix4Multiply(parentLocal, modelMatrix)

\* the `while (parentId)` loop that composes the world matrix. The loop has no
\* other exit than a null, unknown or transform-less parent: when it has taken
\* more turns than there are stored entities it is on a cycle and never ends
RECURSIVE ParentWalk(_, _, _, _, _)
ParentWalk(modelMatrix, parentId, ents, os, turns) ==
  IF parentId = 0
  THEN [matrix |-> modelMatrix, hangs |-> FALSE, threw |-> FALSE]
  ELSE IF parentId \notin Range(ents)
       THEN [matrix |-> modelMatrix, hangs |-> FALSE, threw |-> FALSE]
  ELSE IF "transform" \notin DOMAIN os[parentId].components
       THEN [matrix |-> modelMatrix, hangs |-> FALSE, threw |-> FALSE]
  ELSE IF SpreadThrows(os[parentId].components["transform"])
       THEN [matrix |-> NoMatrix, hangs |-> FALSE, threw |-> TRUE]
  ELSE IF turns > Len(ents)
       THEN [matrix |-> modelMatrix, hangs |-> TRUE, threw |-> FALSE]
  ELSE LET parentTransform == os[parentId].components["transform"]
           parentLocal == computeLocalModel(parentTransform)
       IN ParentWalk(ComposeParent(parentLocal, modelMatrix),
                     parentTransform.parent, ents, os, turns + 1)

\* the local matrix alone, no parent walk
LocalMatrix(tr, ents, os) ==
  [matrix |-> computeLocalModel(tr), hangs |-> FALSE, threw |-> FALSE]

\* the world matrix of a transform: its local matrix, then the parent walk;
\* threw when a computeLocalModel on the way threw
WorldMatrix(tr, ents, os) ==
  IF SpreadThrows(tr) THEN [matrix |-> NoMatrix, hangs |-> FALSE, threw |-> TRUE]
  ELSE ParentWalk(computeLocalModel(tr), tr.parent, ents, os, 1)

\* dist2 of render: the squared distance of the matrix translation to the camera
\* (a distance of more than MaxDistance along an axis counts as MaxDistance:
\* its square is beyond the integers of the model)
Dist2(modelMatrix, cam) ==
  LET near(d) == IF d > MaxDistance THEN MaxDistance
                 ELSE IF d < -MaxDistance THEN -MaxDistance ELSE d
      dx == near(modelMatrix[13] - cam[1])
      dy == near(modelMatrix[14] - cam[2])
      dz == near(modelMatrix[15] - cam[3])
  IN dx * dx + dy * dy + dz * dz

\* isTransparent of render, needsBlend of renderEntity without the shadow term
FlagOnly(mat) == mat.transparent

IsTransparent(mat) == mat.transparent \/ mat.opacity < 100

\* the lazy texture upload `if (textureImage && !_glTexture) try { tex =
\* createTexture(); texImage2D(.., textureImage); _glTexture = tex } catch`:
\* texImage2D throws for a tainted image and the handle stays unset
UploadTexture(mat) ==
  IF mat.textureImage # "none" /\ mat.glTexture = 0
  THEN [mat EXCEPT !.uploads = @ + 1,
                   !.glTexture = IF mat.textureImage = "image" THEN 1 ELSE 0]
  ELSE mat

\* no material of the world has reached the bound of the upload count
UploadsBelow(max) ==
  \A id \in Range(entities) :
    "material" \in DOMAIN objs[id].components =>
      objs[id].components["material"].uploads < max

\* SVG3NexusRenderer.getGeometryBuffers(geometryId): the cache after the call
\* (unchanged when the id is cached or names no geometry)
BuffersAfterGet(buffers, lib, geometryId) ==
  IF geometryId \in DOMAIN buffers \/ geometryId \notin DOMAIN lib
  THEN buffers
  ELSE [g \in (DOMAIN buffers) \cup {geometryId} |->
          IF g = geometryId THEN [indexCount |-> lib[g].indexCount] ELSE buffers[g]]

\* opaqueList and transparentList when no render() has built them
NoLists == [opaque |-> <<>>, transparent |-> <<>>]

\* one draw call as the log keeps it: gl is the state of the context at the
\* call, glAfter the state when the function that issued it is done with it
DrawCall(call, e, mat, glState, count, color, opacity, hasTexture, model, glAfter) ==
  [call |-> call, entity |-> e, material |-> mat, gl |-> glState,
   indexCount |-> count, color |-> color, opacity |-> opacity,
   hasTexture |-> hasTexture, modelMatrix |-> model,
   glAfter |-> glAfter]

\* `if (material.doubleSided) gl.disable(CULL_FACE) else gl.enable(CULL_FACE)`
AlwaysCull(material) == TRUE

CullFaceFor(material) == ~ material.doubleSided

\* needsBlend of renderEntity
NeverBlend(material) == FALSE

needsBlend(material) ==
  material.isShadow \/ material.transparent \/ material.opacity < 100

\* gl.blendFunc(gl.SRC_ALPHA, gl.ONE_MINUS_SRC_ALPHA)
SrcAlpha == "SRC_ALPHA, ONE_MINUS_SRC_ALPHA"

\* the state is left as the draw call had it
LeaveAsDrawn(glState) == glState

\* the last lines of renderEntity: gl.enable(CULL_FACE), gl.cullFace(BACK),
\* gl.depthMask(true), gl.disable(BLEND)
RestoreAfterDraw(glState) ==
  [glState EXCEPT !.cullFace = TRUE, !.depthMask = TRUE, !.blend = FALSE]

\* SVG3NexusRenderer.renderEntity(entity, precomputedModelMatrix); rs is the
\* renderer and world state the call works on, the result says whether it threw
renderEntity(rs, e, modelMatrix) ==
  LET mesh == rs.os[e].components["mesh"]
      material == rs.os[e].components["material"]
      buffers == BuffersAfterGet(rs.buffers, rs.lib, mesh.geometryId)
      isShadowMat == material.isShadow
      withTexture == material.textureImage # "none" /\ ~ isShadowMat
      mat2 == IF withTexture THEN UploadTexture(material) ELSE material
      hasTexture == withTexture /\ mat2.glTexture # 0
      glDraw == [rs.gl EXCEPT !.blend = needsBlend(material),
                              !.blendFunc = IF needsBlend(material)
                                            THEN SrcAlpha ELSE @,
                              !.depthMask = ~ needsBlend(material),
                              !.cullFace = CullFaceFor(material)]
      glAfter == RestoreAfterDraw(glDraw)
  IN IF ~ mesh.visible THEN [rs |-> rs, threw |-> FALSE]
     ELSE IF mesh.geometryId \notin DOMAIN buffers THEN [rs |-> rs, threw |-> FALSE]
     ELSE IF \/ modelMatrix = NoMatrix
             \/ ~ isShadowMat /\ material.color = NotIterable
          \* the function's own computeLocalModel threw, or
          \* gl.uniform3fv(this.colorLoc, material.color) throws a TypeError
          THEN [rs |-> [rs EXCEPT !.buffers = buffers], threw |-> TRUE]
     ELSE [rs |-> [rs EXCEPT
                     !.buffers = buffers,
                     !.os[e].components["material"] = mat2,
                     !.gl = glAfter,
                     !.log = Append(@,
                        DrawCall("drawElements", e, mat2, glDraw,
                                 buffers[mesh.geometryId].indexCount,
                                 IF isShadowMat THEN <<0, 0, 0>> ELSE material.color,
                                 material.opacity, hasTexture, modelMatrix,
                                 glAfter))],
           threw |-> FALSE]

\* where the loop of the sky pass goes on after it drew the quad for the i-th
\* of n entities: `break`, behind the last one
NoBreak(i, n) == i + 1

AfterSkyQuad(i, n) == n + 1

\* the sky pass of render: the loop over skyQuery.entities
RECURSIVE SkyPass(_, _, _)
SkyPass(rs, es, i) ==
  IF i > Len(es) THEN rs
  ELSE LET e == es[i]
           mat == rs.os[e].components["material"]
           mat2 == UploadTexture(mat)
           rs2 == [rs EXCEPT !.os[e].components["material"] = mat2]
           glQuad == [rs.gl EXCEPT !.program = "sky", !.depthTest = FALSE,
                                   !.depthMask = FALSE, !.cullFace = FALSE]
           glAfter == [glQuad EXCEPT !.depthTest = TRUE, !.cullFace = TRUE,
                                     !.depthMask = TRUE, !.program = "main"]
       IN IF ~ mat.isSky THEN SkyPass(rs, es, i + 1)
          ELSE IF mat2.glTexture = 0 THEN SkyPass(rs2, es, i + 1)
          ELSE SkyPass([rs2 EXCEPT
                          !.gl = glAfter,
                          !.skyRendered = @ \cup {e},
                          !.log = Append(@, DrawCall("drawArrays", e, mat2, glQuad,
                                                     6, White, 100, TRUE, <<>>,
                                                     glAfter))],
                       es, AfterSkyQuad(i, Len(es)))

\* the list-building loop of render over renderables.entities: the items
\* {entity, modelMatrix, dist2} of opaqueList and transparentList
RECURSIVE BuildLists(_, _, _, _)
BuildLists(lists, rs, es, i) ==
  IF i > Len(es) THEN lists
  ELSE LET e == es[i]
           tr == rs.os[e].components["transform"]
           mat == rs.os[e].components["material"]
           mesh == rs.os[e].components["mesh"]
           world == WorldMatrix(tr, rs.ents, rs.os)
           item == [entity |-> e, modelMatrix |-> world.matrix,
                    dist2 |-> Dist2(world.matrix, rs.camera)]
       IN IF e \in rs.skyRendered THEN BuildLists(lists, rs, es, i + 1)
          ELSE IF mesh.geometryId = "" THEN BuildLists(lists, rs, es, i + 1)
          ELSE IF mat.isSky THEN BuildLists(lists, rs, es, i + 1)
          \* `try { .. } catch (e)` inside the loop: the entity is left out
          ELSE IF world.threw THEN BuildLists(lists, rs, es, i + 1)
          ELSE IF world.hangs
               THEN [lists EXCEPT !.hangs = TRUE]
          ELSE IF mat.isShadow THEN BuildLists(lists, rs, es, i + 1)
          ELSE IF IsTransparent(mat)
               THEN BuildLists([lists EXCEPT !.transparent = Append(@, item)],
                               rs, es, i + 1)
          ELSE BuildLists([lists EXCEPT !.opaque = Append(@, item)], rs, es, i + 1)

\* transparentList.sort((a, b) => b.dist2 - a.dist2): a stable sort, farthest
\* first; insert x behind every item whose dist2 is >= its own
InsertByDist2(sorted, x) ==
  LET k == Cardinality({i \in DOMAIN sorted : sorted[i].dist2 >= x.dist2})
  IN SubSeq(sorted, 1, k) \o <<x>> \o SubSeq(sorted, k + 1, Len(sorted))

RECURSIVE SortTransparentPrefix(_, _)
SortTransparentPrefix(list, n) ==
  IF n = 0 THEN <<>>
  ELSE InsertByDist2(SortTransparentPrefix(list, n - 1), list[n])

Unsorted(list) == list

SortTransparent(list) == SortTransparentPrefix(list, Len(list))

\* the order in which render walks the two lists: opaque first, then the
\* sorted transparent list
TransparentFirst(opaqueList, transparentList) ==
  SortTransparent(transparentList) \o opaqueList

DrawOrder(opaqueList, transparentList) ==
  opaqueList \o SortTransparent(transparentList)

\* the two loops `for (const item of ...) try { renderEntity } catch`: an
\* exception of one entity is logged and the loop goes on
RECURSIVE DrawItems(_, _, _)
DrawItems(rs, items, i) ==
  IF i > Len(items) THEN rs
  ELSE DrawItems(renderEntity(rs, items[i].entity, items[i].modelMatrix).rs,
                 items, i + 1)

\* the shadow pass of render: one try around the loop over shadowQuery.entities
RECURSIVE ShadowPass(_, _, _)
ShadowPass(rs, es, i) ==
  IF i > Len(es) THEN rs
  ELSE LET e == es[i]
           mat == rs.os[e].components["material"]
           hasTransform == "transform" \in DOMAIN rs.os[e].components
           world == WorldMatrix(rs.os[e].components["transform"], rs.ents, rs.os)
           glShadow == [rs.gl EXCEPT !.blend = TRUE, !.blendFunc = SrcAlpha,
                                     !.depthMask = FALSE,
                                     !.polygonOffsetFill = TRUE]
           r == renderEntity([rs EXCEPT !.gl = glShadow], e, world.matrix)
           glAfter == [r.rs.gl EXCEPT !.polygonOffsetFill = FALSE,
                                      !.depthMask = TRUE, !.blend = FALSE]
       IN IF ~ mat.isShadow THEN ShadowPass(rs, es, i + 1)
          ELSE IF ~ hasTransform THEN ShadowPass(rs, es, i + 1)
          ELSE IF world.threw THEN rs
          ELSE IF world.hangs THEN [rs EXCEPT !.hangs = TRUE]
          ELSE IF r.threw THEN r.rs
          ELSE ShadowPass([r.rs EXCEPT !.gl = glAfter], es, i + 1)

RenderKey == QueryKey(<<"transform", "mesh", "material">>, <<>>)

ShadowKey == QueryKey(<<"mesh", "material">>, <<>>)

\* SVG3NexusRenderer.render(): the state after the call
RenderResult ==
  LET qs1 == WithQuery(queries, <<"transform", "mesh", "material">>, <<>>,
                       entities, objs)
      qs2 == WithQuery(qs1, <<"mesh", "material">>, <<>>, entities, objs)
      renderables == qs2[QueryIndex(qs2, RenderKey)].entities
      shadowEntities == qs2[QueryIndex(qs2, ShadowKey)].entities
      rs0 == [os |-> objs, ents |-> entities, lib |-> geometries,
              buffers |-> geometryBuffers, camera |-> camera, gl |-> gl,
              log |-> <<>>, skyRendered |-> {}, hangs |-> FALSE]
      rs1 == SkyPass(rs0, renderables, 1)
      lists == BuildLists([opaque |-> <<>>, transparent |-> <<>>, hangs |-> FALSE],
                          rs1, renderables, 1)
      rs2 == DrawItems(rs1, DrawOrder(lists.opaque, lists.transparent), 1)
      rs3 == ShadowPass(rs2, shadowEntities, 1)
  IN [queries |-> qs2, rs |-> IF lists.hangs THEN rs1 ELSE rs3,
      hangs |-> lists.hangs \/ rs3.hangs,
      lists |-> [opaque |-> [i \in DOMAIN lists.opaque |-> lists.opaque[i].entity],
                 transparent |-> [i \in DOMAIN lists.transparent |->
                                    lists.transparent[i].entity]]]

\* SVG3NexusRenderer.render(), a call that returns
Render ==
  /\ pc = "idle"
  /\ renderPc # "hung"
  /\ UploadsBelow(MaxUploads)
  /\ \E r \in {RenderResult} :
        /\ ~ r.hangs
        /\ queries' = r.queries
        /\ objs' = r.rs.os
        /\ geometryBuffers' = r.rs.buffers
        /\ gl' = r.rs.gl
        /\ drawLog' = r.rs.log
        /\ renderLists' = r.lists
  /\ renderPc' = "returned"
  /\ UNCHANGED <<entities, nextEntityId, createdIds, geometries, camera>>
  /\ UNCHANGED schedVars
  /\ UNCHANGED libraryVars

\* SVG3NexusRenderer.render(), a call whose `while (parentId)` loop walks a
\* cycle of parents: the call never returns and, the program being one
\* thread, nothing else runs afterwards
RenderHangs ==
  /\ pc = "idle"
  /\ renderPc # "hung"
  /\ UploadsBelow(MaxUploads)
  /\ \E r \in {RenderResult} :
        /\ r.hangs
        /\ queries' = r.queries
        /\ objs' = r.rs.os
        /\ geometryBuffers' = r.rs.buffers
        /\ gl' = r.rs.gl
        /\ drawLog' = r.rs.log
        /\ renderLists' = NoLists
  /\ renderPc' = "hung"
  /\ UNCHANGED <<entities, nextEntityId, createdIds, geometries, camera>>
  /\ UNCHANGED schedVars
  /\ UNCHANGED libraryVars

\* world.destroyEntity(id) of a stored entity, between two frames
DestroyRenderable(ids) ==
  /\ pc = "idle"
  /\ renderPc # "hung"
  /\ \E id \in ids :
       /\ id \in Range(entities)
       /\ WorldDestroyEntity(id)
  /\ drawLog' = <<>>
  /\ renderLists' = NoLists
  /\ renderPc' = "none"
  /\ UNCHANGED <<geometries, geometryBuffers, camera, gl>>
  /\ UNCHANGED schedVars
  /\ UNCHANGED libraryVars

\* world.removeComponent(entity, 'transform') of a stored entity
RemoveTransform(ids) ==
  /\ pc = "idle"
  /\ renderPc # "hung"
  /\ \E id \in ids :
       /\ id \in Range(entities)
       /\ hasComponent(objs[id], "transform")
       /\ WorldRemoveComponent(id, "transform")
  /\ drawLog' = <<>>
  /\ renderLists' = NoLists
  /\ renderPc' = "none"
  /\ UNCHANGED <<geometries, geometryBuffers, camera, gl>>
  /\ UNCHANGED schedVars
  /\ UNCHANGED libraryVars

\* renderer.renderEntity(entity) called without a precomputed matrix: the
\* function composes the world matrix itself (its own computeLocalModel and
\* parent walk) and draws; an exception goes to the caller
RenderEntityCall(ids) ==
  /\ pc = "idle"
  /\ renderPc # "hung"
  /\ UploadsBelow(MaxUploads)
  /\ \E id \in ids :
       /\ id \in Range(entities)
       /\ {"transform", "mesh", "material"} \subseteq DOMAIN objs[id].components
       /\ \E world \in {WorldMatrix(objs[id].components["transform"], entities, objs)} :
            /\ ~ world.hangs
            /\ \E r \in {renderEntity([os |-> objs, ents |-> entities,
                                        lib |-> geometries,
                                        buffers |-> geometryBuffers,
                                        camera |-> camera, gl |-> gl,
                                        log |-> <<>>, skyRendered |-> {},
                                        hangs |-> FALSE], id, world.matrix)} :
                 /\ objs' = r.rs.os
                 /\ geometryBuffers' = r.rs.buffers
                 /\ gl' = r.rs.gl
                 /\ drawLog' = r.rs.log
                 /\ renderPc' = IF r.threw THEN "thrown" ELSE "entity"
  /\ renderLists' = NoLists
  /\ UNCHANGED <<entities, nextEntityId, queries, createdIds, geometries, camera>>
  /\ UNCHANGED schedVars
  /\ UNCHANGED libraryVars

\* transform.parent = parentId, the write the loader and the application do
\* on the public field; any id, the entity's own included
SetParent(ids, parents) ==
  /\ pc = "idle"
  /\ renderPc # "hung"
  /\ \E id \in ids, parentId \in parents :
       /\ id \in Range(entities)
       /\ hasComponent(objs[id], "transform")
       /\ objs[id].components["transform"].parent # parentId
       /\ objs' = [objs EXCEPT ![id].components["transform"].parent = parentId]
  /\ drawLog' = <<>>
  /\ renderLists' = NoLists
  /\ renderPc' = "none"
  /\ UNCHANGED <<entities, nextEntityId, queries, createdIds>>
  /\ UNCHANGED <<geometries, geometryBuffers, camera, gl>>
  /\ UNCHANGED schedVars
  /\ UNCHANGED libraryVars

\* the camera is moved (the input systems write renderer.camera.position);
\* the log of the last render is dropped with every change of the scene
MoveCamera(positions) ==
  /\ pc = "idle"
  /\ renderPc # "hung"
  /\ \E p \in positions : camera' = p
  /\ camera' # camera
  /\ drawLog' = <<>>
  /\ renderLists' = NoLists
  /\ renderPc' = "none"
  /\ UNCHANGED <<geometries, geometryBuffers, gl>>
  /\ UNCHANGED worldVars
  /\ UNCHANGED schedVars
  /\ UNCHANGED libraryVars

\* an entity is created and given a transform, a mesh and a material:
\* createEntity and three addComponent calls
AddRenderableWith(max, transforms, meshes, materials) ==
  /\ pc = "idle"
  /\ renderPc # "hung"
  /\ nextEntityId <= max
  /\ \E tr \in transforms, mesh \in meshes, mat \in materials :
       LET id == NewEntityId(nextEntityId, entities)
           e0 == NewEntity(id)
           e1 == EntityAddComponent(e0, "transform", tr)
           e2 == EntityAddComponent(e1, "mesh", mesh)
           e3 == EntityAddComponent(e2, "material", mat)
           os == [i \in (DOMAIN objs) \cup {id} |-> IF i = id THEN e3 ELSE objs[i]]
           es == Append(entities, id)
       IN /\ tr.parent < id
          /\ nextEntityId' = nextEntityId + 1
          /\ objs' = os
          /\ entities' = es
          /\ queries' = InvalidateQueries(queries, es, os)
          /\ createdIds' = Append(createdIds, id)
  /\ drawLog' = <<>>
  /\ renderLists' = NoLists
  /\ renderPc' = "none"
  /\ UNCHANGED <<geometries, geometryBuffers, camera, gl>>
  /\ UNCHANGED schedVars
  /\ UNCHANGED libraryVars

\* the same with a mesh of the box
AddRenderable(max, transforms, materials) ==
  AddRenderableWith(max, transforms, {NewMesh("box")}, materials)

\* GeometryLibrary.addGeometry(id, vertices, indices) and createBox(id, ..),
\* createSphere, createCylinder: this.geometries.set(id, geometry)
AddGeometry(ids, indexCounts) ==
  /\ pc = "idle"
  /\ renderPc # "hung"
  /\ \E id \in ids, n \in indexCounts :
       geometries' = [g \in (DOMAIN geometries) \cup {id} |->
                        IF g = id THEN [indexCount |-> n] ELSE geometries[g]]
  /\ geometries' # geometries
  /\ drawLog' = <<>>
  /\ renderLists' = NoLists
  /\ renderPc' = "none"
  /\ UNCHANGED <<geometryBuffers, camera, gl>>
  /\ UNCHANGED worldVars
  /\ UNCHANGED schedVars
  /\ UNCHANGED libraryVars

\* GeometryLibrary.deleteGeometry(id): this.geometries.delete(id)
DeleteGeometry(ids) ==
  /\ pc = "idle"
  /\ renderPc # "hung"
  /\ \E id \in ids :
       /\ id \in DOMAIN geometries
       /\ geometries' = [g \in (DOMAIN geometries) \ {id} |-> geometries[g]]
  /\ drawLog' = <<>>
  /\ renderLists' = NoLists
  /\ renderPc' = "none"
  /\ UNCHANGED <<geometryBuffers, camera, gl>>
  /\ UNCHANGED worldVars
  /\ UNCHANGED schedVars
  /\ UNCHANGED libraryVars

(***************************************************************************)
(* class GeometryLibrary: a geometry is [type, vertexLength, indices,      *)
(* vertexCount, indexCount, uvLength]; vertexLength is vertices.length,    *)
(* uvLength uvs.length or -1 for no uvs. The field indices keeps the array *)
(* the Uint16Array was made from: [of |-> "array", numbers |-> ...] or,    *)
(* for the arrays the loops of createSphere and createCylinder fill,       *)
(* [of |-> "sphere" or "cylinder", segments |-> ...]; Indices(geometry) is *)
(* the content of the Uint16Array. An id is <<stem, n>>, the string        *)
(* `${stem}_${n}`; NoId is null.                                           *)
(***************************************************************************)
NoId == <<"", 0>>

\* id = id || `box_${this.nextId++}`
GeneratedId(id, stem, next) == IF id = NoId THEN <<stem, next>> ELSE id

NextIdAfter(id, next) == IF id = NoId THEN next + 1 ELSE next

\* the number a Uint16Array element keeps when n is stored in it
Uint16(n) == n % 65536

\* this.geometries.set(id, geometry)
MapSetGeometry(lib, id, geometry) ==
  [g \in (DOMAIN lib) \cup {id} |-> IF g = id THEN geometry ELSE lib[g]]

\* the indices array of createBox
BoxIndices ==
  << 0, 1, 2, 0, 2, 3,  4, 6, 5, 4, 7, 6,  8, 9, 10, 8, 10, 11,
     12, 14, 13, 12, 15, 14,  16, 17, 18, 16, 18, 19,  20, 22, 21, 20, 23, 22 >>

\* vertices.length of createBox: 24 corners of three numbers
BoxVertexLength == 72

\* the geometry object createBox stores
BoxGeometry ==
  [type |-> "box", vertexLength |-> BoxVertexLength,
   indices |-> [of |-> "array", numbers |-> BoxIndices],
   vertexCount |-> BoxVertexLength \div 3, indexCount |-> Len(BoxIndices),
   uvLength |-> -1]

\* the vertex loops of createSphere with `lon < segments` for `lon <= segments`
SphereVertexLengthOpenSeam(segments) ==
  IF segments >= 0 THEN 3 * (segments + 1) * segments ELSE 0

\* vertices.length after `for lat <= segments, for lon <= segments:
\* vertices.push(x, y, z)`
SphereVertexLength(segments) ==
  IF segments >= 0 THEN 3 * (segments + 1) * (segments + 1) ELSE 0

\* the six numbers the index loop of createSphere pushes at (lat, lon)
SpherePush(segments, lat, lon) ==
  LET first == lat * (segments + 1) + lon
      second == first + segments + 1
  IN <<first, second, first + 1, second, second + 1, first + 1>>

\* the indices array of createSphere: the k-th number pushed by
\* `for lat < segments, for lon < segments`
SphereIndices(segments) ==
  LET n == IF segments > 0 THEN 6 * segments * segments ELSE 0
      pushed == [k \in 1..n |->
                   SpherePush(segments, (k - 1) \div (6 * segments),
                              ((k - 1) \div 6) % segments)[((k - 1) % 6) + 1]]
  IN SubSeq(pushed, 1, n)

\* the geometry object createSphere stores
SphereGeometry(segments) ==
  [type |-> "sphere", vertexLength |-> SphereVertexLength(segments),
   indices |-> [of |-> "sphere", segments |-> segments],
   vertexCount |-> SphereVertexLength(segments) \div 3,
   indexCount |-> Len(SphereIndices(segments)), uvLength |-> -1]

\* vertices.length after the two ring loops `for i <= radialSegs` of
\* createCylinder
CylinderVertexLength(radialSegs) ==
  IF radialSegs >= 0 THEN 2 * 3 * (radialSegs + 1) ELSE 0

\* the six numbers the index loop of createCylinder pushes at i
CylinderPush(radialSegs, i) ==
  LET a == i
      b == i + 1
      c == radialSegs + 1 + i
      d == radialSegs + 1 + i + 1
  IN <<a, c, b, b, c, d>>

\* the indices array of createCylinder: the k-th number pushed by
\* `for i < radialSegs`
CylinderIndices(radialSegs) ==
  LET n == IF radialSegs > 0 THEN 6 * radialSegs ELSE 0
      pushed == [k \in 1..n |->
                   CylinderPush(radialSegs, (k - 1) \div 6)[((k - 1) % 6) + 1]]
  IN SubSeq(pushed, 1, n)

\* the geometry object createCylinder stores
CylinderGeometry(radialSegs) ==
  [type |-> "cylinder", vertexLength |-> CylinderVertexLength(radialSegs),
   indices |-> [of |-> "cylinder", segments |-> radialSegs],
   vertexCount |-> CylinderVertexLength(radialSegs) \div 3,
   indexCount |-> Len(CylinderIndices(radialSegs)), uvLength |-> -1]

\* new Uint16Array(indices): the numbers of geometry.indices
Indices(geometry) ==
  LET numbers == IF geometry.indices.of = "sphere"
                 THEN SphereIndices(geometry.indices.segments)
                 ELSE IF geometry.indices.of = "cylinder"
                 THEN CylinderIndices(geometry.indices.segments)
                 ELSE geometry.indices.numbers
      stored == [k \in DOMAIN numbers |-> Uint16(numbers[k])]
  IN SubSeq(stored, 1, Len(numbers))

\* what a call of the library leaves alone
LibraryFrame ==
  /\ UNCHANGED <<geometryBuffers, camera, gl, drawLog, renderLists, renderPc>>
  /\ UNCHANGED worldVars
  /\ UNCHANGED schedVars

\* GeometryLibrary.createBox(id): at most max ids are generated
CreateBox(ids, max) ==
  /\ pc = "idle"
  /\ renderPc # "hung"
  /\ \E id \in ids :
       /\ id = NoId => nextId <= max
       /\ geometries' = MapSetGeometry(geometries, GeneratedId(id, "box", nextId),
                                       BoxGeometry)
       /\ nextId' = NextIdAfter(id, nextId)
       /\ probe' = [op |-> "createBox", id |-> id,
                    returned |-> GeneratedId(id, "box", nextId)]
  /\ LibraryFrame

\* GeometryLibrary.createSphere(id, radius, segments)
CreateSphere(ids, max, segmentCounts) ==
  /\ pc = "idle"
  /\ renderPc # "hung"
  /\ \E id \in ids, segments \in segmentCounts :
       /\ id = NoId => nextId <= max
       /\ geometries' = MapSetGeometry(geometries,
                                       GeneratedId(id, "sphere", nextId),
                                       SphereGeometry(segments))
       /\ nextId' = NextIdAfter(id, nextId)
       /\ probe' = [op |-> "createSphere", id |-> id, segments |-> segments,
                    returned |-> GeneratedId(id, "sphere", nextId)]
  /\ LibraryFrame

\* GeometryLibrary.createCylinder(id, radiusTop, radiusBottom, height,
\* radialSegs)
CreateCylinder(ids, max, segmentCounts) ==
  /\ pc = "idle"
  /\ renderPc # "hung"
  /\ \E id \in ids, radialSegs \in segmentCounts :
       /\ id = NoId => nextId <= max
       /\ geometries' = MapSetGeometry(geometries,
                                       GeneratedId(id, "cylinder", nextId),
                                       CylinderGeometry(radialSegs))
       /\ nextId' = NextIdAfter(id, nextId)
       /\ probe' = [op |-> "createCylinder", id |-> id,
                    segments |-> radialSegs,
                    returned |-> GeneratedId(id, "cylinder", nextId)]
  /\ LibraryFrame

\* the geometry object addGeometry stores for buffers of these lengths and
\* numbers: vertexCount is (vertices.length / 3) | 0, uvs null (-1) or the
\* caller's array
RawGeometry(vertexLength, indices, uvLength) ==
  [type |-> "raw", vertexLength |-> vertexLength,
   indices |-> [of |-> "array", numbers |-> indices],
   vertexCount |-> vertexLength \div 3, indexCount |-> Len(indices),
   uvLength |-> uvLength]

\* GeometryLibrary.addGeometry(id, vertices, indices, uvs) with the buffers
\* of the caller
AddGeometryBuffers(ids, vertexLengths, indexArrays, uvLengths) ==
  /\ pc = "idle"
  /\ renderPc # "hung"
  /\ \E id \in ids, vertexLength \in vertexLengths, indices \in indexArrays,
        uvLength \in uvLengths :
       /\ geometries' = MapSetGeometry(geometries, id,
                                       RawGeometry(vertexLength, indices, uvLength))
       /\ probe' = [op |-> "addGeometry", id |-> id, returned |-> id,
                    vertexLength |-> vertexLength, indices |-> indices,
                    uvLength |-> uvLength]
  /\ UNCHANGED nextId
  /\ LibraryFrame

(***************************************************************************)
(* Specification of the World under its structural operations              *)
(***************************************************************************)
InitWorld ==
  /\ entities = <<>>
  /\ objs = <<>>
  /\ nextEntityId = 1
  /\ queries = <<>>
  /\ createdIds = <<>>

InitSched ==
  /\ systems = <<>>
  /\ time = [elapsed |-> 0, deltaTime |-> 0, frameCount |-> 0]
  /\ pc = "idle"
  /\ sortedSystems = <<>>
  /\ idx = 0
  /\ invoked = <<>>
  /\ timeAtCall = [elapsed |-> 0, deltaTime |-> 0, frameCount |-> 0]
  /\ lastTime = -1
  /\ startView = <<>>
  /\ view = <<>>

\* the renderer after its constructor: the GL defaults, no cached buffers
DefaultGL ==
  [depthTest |-> TRUE, depthMask |-> TRUE, cullFace |-> TRUE, blend |-> FALSE,
   blendFunc |-> "ONE, ZERO", polygonOffsetFill |-> FALSE, program |-> "main"]

\* no call yet
NoProbe == [op |-> "none"]

\* new GeometryLibrary() without a geometry
InitLibrary ==
  /\ nextId = 1
  /\ probe = NoProbe

InitRender ==
  /\ geometries = <<>>
  /\ geometryBuffers = <<>>
  /\ camera = <<0, 0, 0>>
  /\ gl = DefaultGL
  /\ drawLog = <<>>
  /\ renderLists = NoLists
  /\ renderPc = "none"
  /\ InitLibrary

Init == InitWorld /\ InitSched /\ InitRender

CreateEntity ==
  /\ WorldCreateEntity(MaxEntities)
  /\ UNCHANGED schedVars
  /\ UNCHANGED renderVars
  /\ UNCHANGED libraryVars

DestroyEntity ==
  /\ \E id \in 1..MaxEntities : WorldDestroyEntity(id)
  /\ UNCHANGED schedVars
  /\ UNCHANGED renderVars
  /\ UNCHANGED libraryVars

AddComponent ==
  /\ \E id \in 1..MaxEntities, type \in WorldTypes : WorldAddComponent(id, type)
  /\ UNCHANGED schedVars
  /\ UNCHANGED renderVars
  /\ UNCHANGED libraryVars

RemoveComponent ==
  /\ \E id \in 1..MaxEntities, type \in WorldTypes : WorldRemoveComponent(id, type)
  /\ UNCHANGED schedVars
  /\ UNCHANGED renderVars
  /\ UNCHANGED libraryVars

QueryCall ==
  /\ \E required \in QueryArgs, excluded \in ExcludedArgs :
       WorldQuery(required, excluded)
  /\ UNCHANGED schedVars
  /\ UNCHANGED renderVars
  /\ UNCHANGED libraryVars

Next ==
  \/ CreateEntity
  \/ DestroyEntity
  \/ AddComponent
  \/ RemoveComponent
  \/ QueryCall

Spec == Init /\ [][Next]_vars

(***************************************************************************)
(* Specification of the scheduler: the registry, update and its callers    *)
(***************************************************************************)
NextSched ==
  \/ AddSystem
  \/ RemoveSystem
  \/ SetSystemEnabled
  \/ Update
  \/ StartAnimationLoop
  \/ Animate
  \/ LoopStep
  \/ CallbackReturn
  \/ CallbackThrow
  \/ UpdateReturn
  \/ UpdateExit

SpecSched == Init /\ [][NextSched]_vars

(***************************************************************************)
(* Specification of one frame: the callbacks of update change the World    *)
(***************************************************************************)
\* the component types the callbacks of the model attach and remove
FrameTypes == {"transform"}

\* the deltaTime of the frames of this specification
FrameDeltaTimes == {1}

\* the World after SVG3NEXUS.create() and a first world.query(['transform']),
\* with the three systems registered in the order a, b, c
InitFrame ==
  /\ entities = <<>>
  /\ objs = <<>>
  /\ nextEntityId = 1
  /\ queries = << NewQuery(TransformKey, <<"transform">>, <<>>, <<>>, <<>>) >>
  /\ createdIds = <<>>
  /\ \E pa \in Priorities, pb \in Priorities, pc0 \in Priorities :
       systems = MapSetSystem(MapSetSystem(MapSetSystem(<<>>, "a", pa), "b", pb),
                              "c", pc0)
  /\ time = [elapsed |-> 0, deltaTime |-> 0, frameCount |-> 0]
  /\ pc = "idle"
  /\ sortedSystems = <<>>
  /\ idx = 0
  /\ invoked = <<>>
  /\ timeAtCall = [elapsed |-> 0, deltaTime |-> 0, frameCount |-> 0]
  /\ lastTime = -1
  /\ startView = <<>>
  /\ view = <<>>
  /\ InitRender

FrameCreateEntity ==
  /\ pc \in {"idle", "callback"}
  /\ WorldCreateEntity(MaxFrameEntities)
  /\ UNCHANGED schedVars
  /\ UNCHANGED renderVars
  /\ UNCHANGED libraryVars

FrameDestroyEntity ==
  /\ pc \in {"idle", "callback"}
  /\ \E id \in 1..MaxFrameEntities : WorldDestroyEntity(id)
  /\ UNCHANGED schedVars
  /\ UNCHANGED renderVars
  /\ UNCHANGED libraryVars

FrameAddComponent ==
  /\ pc \in {"idle", "callback"}
  /\ \E id \in 1..MaxFrameEntities, type \in FrameTypes : WorldAddComponent(id, type)
  /\ UNCHANGED schedVars
  /\ UNCHANGED renderVars
  /\ UNCHANGED libraryVars

FrameRemoveComponent ==
  /\ pc \in {"idle", "callback"}
  /\ \E id \in 1..MaxFrameEntities, type \in FrameTypes :
       WorldRemoveComponent(id, type)
  /\ UNCHANGED schedVars
  /\ UNCHANGED renderVars
  /\ UNCHANGED libraryVars

FrameUpdate ==
  /\ \E deltaTime \in FrameDeltaTimes : UpdateCall(deltaTime)
  /\ UNCHANGED lastTime

NextFrame ==
  \/ FrameCreateEntity
  \/ FrameDestroyEntity
  \/ FrameAddComponent
  \/ FrameRemoveComponent
  \/ FrameUpdate
  \/ LoopStep
  \/ CallbackReturn
  \/ CallbackThrow
  \/ UpdateReturn
  \/ UpdateExit

SpecFrame == InitFrame /\ [][NextFrame]_vars

(***************************************************************************)
(* Specification of render() over scenes of sky, opaque, transparent and   *)
(* shadow entities                                                         *)
(***************************************************************************)
\* a renderer whose geometry library holds the box
InitScene ==
  /\ InitWorld
  /\ InitSched
  /\ geometries = [g \in {"box"} |-> [indexCount |-> BoxIndexCount]]
  /\ geometryBuffers = <<>>
  /\ camera = <<0, 0, 0>>
  /\ gl = DefaultGL
  /\ drawLog = <<>>
  /\ renderLists = NoLists
  /\ renderPc = "none"
  /\ InitLibrary

\* opaque, transparent by flag, transparent by opacity alone, shadow, shadow
\* that is also flagged transparent and carries an image; a sky with an
\* image, a sky without one and a sky that is also flagged isShadow; the
\* shadow material as the demo constructs it
RenderMaterials ==
  { NewMaterial(FALSE, FALSE, FALSE, 100, "none", White),
    NewMaterial(FALSE, FALSE, TRUE, 100, "none", White),
    NewMaterial(FALSE, FALSE, FALSE, 50, "none", White),
    NewMaterial(FALSE, TRUE, FALSE, 100, "none", White),
    NewMaterial(FALSE, TRUE, TRUE, 85, "image", White),
    NewMaterial(TRUE, FALSE, FALSE, 100, "image", White),
    NewMaterial(TRUE, FALSE, FALSE, 100, "none", White),
    NewMaterial(TRUE, TRUE, FALSE, 100, "image", White),
    Material(Black, DemoShadowOptions) }

RenderTransforms == { NewTransform(<<0, 0, 0>>, <<0, 0, 0>>, <<1, 1, 1>>, 0) }

RenderAddRenderable ==
  AddRenderable(MaxRenderEntities, RenderTransforms, RenderMaterials)

NextRender ==
  \/ RenderAddRenderable
  \/ Render

SpecRender == InitScene /\ [][NextRender]_vars

(***************************************************************************)
(* Specification of render() over scenes of transparent entities at        *)
(* different places, sizes and parents, seen from different camera places  *)
(***************************************************************************)
SortMaterials == { NewMaterial(FALSE, FALSE, TRUE, 100, "none", White) }

\* at x = 1, 3 or 5, alone or as a child of entity 1; one of double size
SortTransforms ==
  { NewTransform(<<x, 0, 0>>, <<0, 0, 0>>, <<1, 1, 1>>, parent) :
      x \in {1, 3, 5}, parent \in {0, 1} }
  \cup { NewTransform(<<1, 0, 0>>, <<0, 0, 0>>, <<2, 2, 2>>, 0) }

CameraPositions == { <<0, 0, 0>>, <<4, 0, 0>> }

SortAddRenderable ==
  AddRenderable(MaxRenderEntities, SortTransforms, SortMaterials)

SortMoveCamera == MoveCamera(CameraPositions)

NextSort ==
  \/ SortAddRenderable
  \/ SortMoveCamera
  \/ Render

SpecSort == InitScene /\ [][NextSort]_vars

(***************************************************************************)
(* Specification of render() over scenes of sky entities and of textured   *)
(* opaque entities, with an image that uploads, an image texImage2D        *)
(* refuses, or no image                                                    *)
(***************************************************************************)
SkyMaterials ==
  { NewMaterial(TRUE, FALSE, FALSE, 100, "image", White),
    NewMaterial(TRUE, FALSE, FALSE, 100, "tainted", White),
    NewMaterial(TRUE, FALSE, FALSE, 100, "none", White),
    NewMaterial(FALSE, FALSE, FALSE, 100, "image", White),
    NewMaterial(FALSE, FALSE, FALSE, 100, "tainted", White) }

SkyAddRenderable ==
  AddRenderable(MaxRenderEntities, RenderTransforms, SkyMaterials)

NextSky ==
  \/ SkyAddRenderable
  \/ Render

SpecSky == InitScene /\ [][NextSky]_vars

(***************************************************************************)
(* Specification of render() while geometries are registered, registered   *)
(* again and deleted                                                       *)
(***************************************************************************)
GeometryIds == {"box", "raw"}

\* the index count of a triangle and that of the box
IndexCounts == {3, BoxIndexCount}

GeometryMaterials == { NewMaterial(FALSE, FALSE, FALSE, 100, "none", White) }

GeometryAddRenderable ==
  AddRenderableWith(MaxRenderEntities, RenderTransforms,
                    { NewMesh(g) : g \in GeometryIds }, GeometryMaterials)

GeometryAdd == AddGeometry(GeometryIds, IndexCounts)

GeometryDelete == DeleteGeometry(GeometryIds)

NextGeometry ==
  \/ GeometryAddRenderable
  \/ GeometryAdd
  \/ GeometryDelete
  \/ Render

SpecGeometry == InitScene /\ [][NextGeometry]_vars

(***************************************************************************)
(* Specification of render() over parent chains: transforms whose parent   *)
(* is null, a stored entity, the entity itself, an entity not created yet, *)
(* a destroyed entity or one that lost its transform                       *)
(***************************************************************************)
HierarchyParents == {0, 1, 2}

\* a scaled transform and a turned one, so that the order of the product shows
HierarchyTransforms ==
  { NewTransform(<<1, 0, 0>>, <<0, 0, 0>>, <<2, 2, 2>>, parent) :
      parent \in HierarchyParents }
  \cup { NewTransform(<<0, 1, 0>>, <<0, 0, 1>>, <<1, 1, 1>>, parent) :
            parent \in HierarchyParents }

HierarchyMaterials == { NewMaterial(FALSE, FALSE, FALSE, 100, "none", White) }

HierarchyAddRenderable ==
  AddRenderable(MaxRenderEntities, HierarchyTransforms, HierarchyMaterials)

HierarchyDestroy == DestroyRenderable(HierarchyParents \ {0})

HierarchyRemoveTransform == RemoveTransform(HierarchyParents \ {0})

HierarchySetParent == SetParent(HierarchyParents \ {0}, HierarchyParents)

NextHierarchy ==
  \/ HierarchyAddRenderable
  \/ HierarchyDestroy
  \/ HierarchyRemoveTransform
  \/ HierarchySetParent
  \/ Render
  \/ RenderHangs

SpecHierarchy == InitScene /\ [][NextHierarchy]_vars

(***************************************************************************)
(* Specification of the world matrix of chains of entities, resolved by    *)
(* render() in its list-building loop and its shadow pass and by           *)
(* renderEntity itself                                                     *)
(***************************************************************************)
\* the first two entities have scales whose product is beyond 2^24, the
\* later ones small scales: every number stays below 2^31
ChainScales == IF nextEntityId <= 2 THEN {1, 4097} ELSE {1, 3}

ChainParents == {0, nextEntityId - 1}

ChainTransforms ==
  { NewTransform(<<3, 0, 0>>, <<0, 0, 0>>, <<sc, sc, sc>>, parent) :
      sc \in ChainScales, parent \in ChainParents }

\* an opaque material and, from the third entity on, one with isShadow set
ChainMaterials ==
  { NewMaterial(FALSE, FALSE, FALSE, 100, "none", White) }
  \cup { NewMaterial(FALSE, TRUE, FALSE, 100, "none", White) : n \in 3..nextEntityId }

ChainAddRenderable ==
  AddRenderable(MaxRenderEntities, ChainTransforms, ChainMaterials)

\* renderEntity is called for the children of the chains
ChainRenderEntity == RenderEntityCall({3, 4})

NextChain ==
  \/ ChainAddRenderable
  \/ ChainRenderEntity
  \/ Render

SpecChain == InitScene /\ [][NextChain]_vars

(***************************************************************************)
(* Specification of render() for scenes with entities whose drawing throws *)
(***************************************************************************)
\* at the origin, with a position array or with a position that is none
ThrowTransforms ==
  { NewTransform(<<0, 0, 0>>, <<0, 0, 0>>, <<1, 1, 1>>, 0),
    NewTransform(NotIterable, <<0, 0, 0>>, <<1, 1, 1>>, 0) }

\* opaque and transparent materials with a colour array and with a colour
\* that is none ('#ffffff'), the shadow material of the demo with isShadow
\* assigned and, for the first entity, a sky with its image
ThrowMaterials ==
  { NewMaterial(FALSE, FALSE, FALSE, 100, "none", White),
    NewMaterial(FALSE, FALSE, FALSE, 100, "none", NotIterable),
    NewMaterial(FALSE, FALSE, TRUE, 100, "none", White),
    NewMaterial(FALSE, FALSE, TRUE, 100, "none", NotIterable),
    [Material(Black, DemoShadowOptions) EXCEPT !.isShadow = TRUE] }
  \cup { NewMaterial(TRUE, FALSE, FALSE, 100, "image", White) : n \in nextEntityId..1 }

ThrowAddRenderable ==
  AddRenderable(MaxRenderEntities, ThrowTransforms, ThrowMaterials)

NextThrow ==
  \/ ThrowAddRenderable
  \/ Render

SpecThrow == InitScene /\ [][NextThrow]_vars

(***************************************************************************)
(* Specification of the primitives of the GeometryLibrary, created without *)
(* an id: boxes, spheres and cylinders of few segments and, as the first   *)
(* geometry of the library, of so many that the vertices pass 2^16         *)
(***************************************************************************)
SphereSegments == {0, 1, 2, 3} \cup { 256 : n \in nextId..1 }

CylinderSegments == {0, 1, 2, 3} \cup { 32768 : n \in nextId..1 }

PrimitiveBox == CreateBox({NoId}, MaxGeometries)

PrimitiveSphere == CreateSphere({NoId}, MaxGeometries, SphereSegments)

PrimitiveCylinder == CreateCylinder({NoId}, MaxGeometries, CylinderSegments)

NextPrimitives ==
  \/ PrimitiveBox
  \/ PrimitiveSphere
  \/ PrimitiveCylinder

SpecPrimitives == Init /\ [][NextPrimitives]_vars

(***************************************************************************)
(* Specification of the GeometryLibrary with ids of the callers and        *)
(* generated ones, primitives and caller-supplied buffers                  *)
(***************************************************************************)
\* the ids of the callers: 'box_1', 'sphere_2', 'mesh_1'
BoxIds == {NoId, <<"box", 1>>}

SphereIds == {NoId, <<"sphere", 2>>}

RawIds == {<<"mesh", 1>>}

\* a triangle of three vertices; four indices; an index beyond the vertices
RawIndexArrays == { <<0, 1, 2>>, <<0, 1, 2, 0>>, <<0, 1, 5>> }

\* three vertices
RawVertexLengths == {9}

\* no uvs, one pair per vertex, a single pair
RawUvLengths == {-1, 6, 2}

LibraryCreateBox == CreateBox(BoxIds, MaxGeometries)

LibraryCreateSphere == CreateSphere(SphereIds, MaxGeometries, {1})

LibraryAddGeometry ==
  AddGeometryBuffers(RawIds, RawVertexLengths, RawIndexArrays, RawUvLengths)

LibraryDeleteGeometry == DeleteGeometry(BoxIds \cup SphereIds \cup RawIds)

NextLibrary ==
  \/ LibraryCreateBox
  \/ LibraryCreateSphere
  \/ LibraryAddGeometry
  \/ LibraryDeleteGeometry

SpecLibrary == Init /\ [][NextLibrary]_vars

(***************************************************************************)
(* Components as objects: the scalar fields hold values, the array fields  *)
(* hold references into a heap of arrays                                   *)
(***************************************************************************)
MaxPushed == 1

\* element writes followed after one constructor call
MaxWrites == 2

ComponentTypes ==
  {"Transform", "Mesh", "Material", "Velocity", "Animation", "Hierarchy", "Tag"}

\* the arguments the constructors are called with; <<>> is no argument
ConstructorArgs(type) ==
  CASE type = "Transform" -> {<<>>, <<2>>}
    [] type = "Mesh" -> {<<>>, <<"box_1">>}
    [] type = "Material" -> {<<>>, << <<1, 0, 0>> >>}
    [] type = "Velocity" -> {<<>>, <<2>>}
    [] type = "Animation" -> {<<>>, <<"walk">>}
    [] type = "Hierarchy" -> {<<>>}
    [] type = "Tag" -> {<<>>, <<"player">>}

\* the first argument, or the default of the parameter
Arg(args, default) == IF Len(args) >= 1 THEN args[1] ELSE default

\* the arrays a constructor creates or is handed, in the order of the fields
ConstructorArrays(type, args) ==
  CASE type = "Transform" -> << <<Arg(args, 0), 0, 0>>, <<0, 0, 0>>, <<1, 1, 1>> >>
    [] type = "Material" -> << Arg(args, <<1, 1, 1>>), <<0, 0, 0>> >>
    [] type = "Velocity" -> << <<Arg(args, 0), 0, 0>> >>
    [] type = "Animation" -> << <<>> >>
    [] type = "Hierarchy" -> << <<>> >>
    [] OTHER -> <<>>

\* the fields a constructor sets that hold no array
ConstructorScalars(type, args) ==
  CASE type = "Transform" -> [parent |-> 0]
    [] type = "Mesh" ->
         [geometryId |-> Arg(args, "null"), materialId |-> "null", visible |-> TRUE,
          castShadow |-> TRUE, receiveShadow |-> TRUE]
    [] type = "Material" ->
         [metalness |-> 0, roughness |-> 5, emissiveIntensity |-> 0, isGrass |-> FALSE,
          doubleSided |-> FALSE, opacity |-> 10, transparent |-> FALSE]
    [] type = "Velocity" -> [none |-> 0]
    [] type = "Animation" ->
         [name |-> Arg(args, "default"), playing |-> FALSE, currentTime |-> 0,
          duration |-> 1, loop |-> TRUE, playbackRate |-> 1]
    [] type = "Hierarchy" -> [parent |-> 0]
    [] type = "Tag" -> [name |-> Arg(args, "")]

\* new Type(args) on this heap: the object and the heap with its arrays
ConstructObject(type, args, heap) ==
  [obj |-> [type |-> type,
            scalars |-> ConstructorScalars(type, args),
            arrays |-> [k \in 1..Len(ConstructorArrays(type, args)) |-> Len(heap) + k]],
   heap |-> heap \o ConstructorArrays(type, args)]

\* Component.clone: new this.constructor(), then Object.assign(cloned, this)
\* puts the values of the fields of this, references included, over it
ComponentClone(obj, heap) ==
  [obj |-> [type |-> obj.type, scalars |-> obj.scalars, arrays |-> obj.arrays],
   heap |-> ConstructObject(obj.type, <<>>, heap).heap]

\* Transform.clone: new Transform(), then a spread copy of each array
TransformClone(obj, heap) ==
  LET made == ConstructObject("Transform", <<>>, heap)
  IN [obj |-> [type |-> "Transform",
               scalars |-> [parent |-> obj.scalars.parent],
               arrays |-> [k \in 1..3 |-> Len(made.heap) + k]],
      heap |-> made.heap \o [k \in 1..3 |-> heap[obj.arrays[k]]]]

\* component.clone(): Transform overrides the method of Component
Clone(obj, heap) ==
  IF obj.type = "Transform" THEN TransformClone(obj, heap)
  ELSE ComponentClone(obj, heap)

NoObject == [type |-> "none"]

\* the other variables of the model stay as they are
ComponentFrame ==
  /\ UNCHANGED <<geometries, nextId>>
  /\ LibraryFrame

\* const c = new Type(args)
ConstructComponent ==
  /\ pc = "idle"
  /\ \E type \in ComponentTypes :
       \E args \in ConstructorArgs(type) :
         \E made \in {ConstructObject(type, args, <<>>)} :
           probe' = [op |-> "new", heap |-> made.heap, original |-> made.obj,
                     cloned |-> NoObject, writes |-> 0]
  /\ ComponentFrame

\* const d = c.clone()
CloneComponent ==
  /\ pc = "idle"
  /\ probe.op \in {"new", "write"}
  /\ probe.cloned = NoObject
  /\ \E made \in {Clone(probe.original, probe.heap)} :
       probe' = [op |-> "clone", heap |-> made.heap, original |-> probe.original,
                 cloned |-> made.obj, writes |-> probe.writes]
  /\ ComponentFrame

\* the objects a program holds
Held == IF probe.op \in {"new", "write", "clone"}
        THEN {o \in {probe.original, probe.cloned} : o # NoObject}
        ELSE {}

\* c.field[i] = 7, or d.field[i] = 7
SetElement ==
  /\ pc = "idle"
  /\ \E obj \in Held :
       \E k \in DOMAIN obj.arrays :
         \E i \in DOMAIN probe.heap[obj.arrays[k]] :
           /\ probe.writes < MaxWrites
           /\ probe.heap[obj.arrays[k]][i] # 7
           /\ probe' = [probe EXCEPT !.op = "write", !.writes = @ + 1,
                                     !.heap[obj.arrays[k]][i] = 7]
  /\ ComponentFrame

\* c.children.push(id), c.addTrack(...): the array grows by one
PushElement ==
  /\ pc = "idle"
  /\ \E obj \in Held :
       /\ obj.type \in {"Animation", "Hierarchy"}
       /\ Len(probe.heap[obj.arrays[1]]) < MaxPushed
       /\ probe.writes < MaxWrites
       /\ probe' = [probe EXCEPT !.op = "write", !.writes = @ + 1,
                                 !.heap[obj.arrays[1]] = Append(@, 7)]
  /\ ComponentFrame

\* c.parent = id
SetParentField ==
  /\ pc = "idle"
  /\ \E obj \in Held :
       /\ obj.type \in {"Transform", "Hierarchy"}
       /\ obj = probe.original
       /\ probe.cloned = NoObject
       /\ obj.scalars.parent = 0
       /\ probe' = [probe EXCEPT !.op = "write", !.original.scalars.parent = 1]
  /\ ComponentFrame

NextClone ==
  \/ ConstructComponent
  \/ CloneComponent
  \/ SetElement
  \/ PushElement
  \/ SetParentField

SpecClone == Init /\ [][NextClone]_vars

(***************************************************************************)
(* SVG3NEXUS.interpolateTrack.  Times are counted in tenths, so that 1 is  *)
(* TimeOne; a value is the tuple of its numbers (one number for a scalar   *)
(* track); a returned number is the fraction <<numerator, denominator>>.   *)
(***************************************************************************)
MaxKeyframes == 3

TimeOne == 10

\* Math.max(0, Math.min(1, t))
ClampTime(t) ==
  IF t > TimeOne THEN TimeOne ELSE IF t < 0 THEN 0 ELSE t

\* the index the loop leaves in i0: the last keyframe at or before t, the
\* first keyframe when there is none (indices from 1)
LastKeyframeAtOrBefore(keyframes, t) ==
  LET passed == {i \in DOMAIN keyframes : keyframes[i] <= t}
  IN IF passed = {} THEN 1
     ELSE CHOOSE i \in passed : \A j \in passed : j <= i

\* interpolateTrack(track, t)
InterpolateTrack(track, asked) ==
  LET t == ClampTime(asked)
      i0 == LastKeyframeAtOrBefore(track.keyframes, t)
      i1 == IF i0 + 1 < Len(track.keyframes) THEN i0 + 1 ELSE Len(track.keyframes)
      t0 == track.keyframes[i0]
      t1 == track.keyframes[i1]
      v0 == track.values[i0]
      v1 == track.values[i1]
  IN IF t0 = t1 THEN [k \in DOMAIN v0 |-> <<v0[k], 1>>]
     ELSE [k \in DOMAIN v0 |->
             <<v0[k] * (t1 - t0) + (v1[k] - v0[k]) * (t - t0), t1 - t0>>]

\* the keyframe times of the tracks: ascending, from 0 or later, to 1 or less
KeyframeTimes == {0, 2, 5, TimeOne}

Ascending(keyframes) ==
  \A i \in DOMAIN keyframes : i > 1 => keyframes[i - 1] < keyframes[i]

\* scalar values and [x, y] values
TrackValues == { <<10>>, <<40>>, <<10, 20>>, <<30, 0>> }

Tracks ==
  UNION { { [keyframes |-> k, values |-> v] :
              k \in {s \in [1..n -> KeyframeTimes] : Ascending(s)},
              v \in {s \in [1..n -> TrackValues] :
                       \A i \in 1..n : Len(s[i]) = Len(s[1])} } :
          n \in 1..MaxKeyframes }

\* the values of t the track is asked at, from below 0 to beyond 1
TrackTimes == {-5, 0, 1, 2, 3, 5, 7, TimeOne, 15}

\* const value = SVG3NEXUS.interpolateTrack(track, t)
CallInterpolateTrack ==
  /\ pc = "idle"
  /\ \E track \in Tracks, t \in TrackTimes :
       probe' = [op |-> "interpolateTrack", track |-> track, t |-> t,
                 returned |-> InterpolateTrack(track, t)]
  /\ ComponentFrame

NextTrack == CallInterpolateTrack

SpecTrack == Init /\ [][NextTrack]_vars

(***************************************************************************)
(* class SVG3ParserNEXUS: the entities of a scene, and the World           *)
(* operations on the world it filled                                       *)
(***************************************************************************)
MaxSceneEntities == 4

\* a <group> or <mesh> element without an id attribute and its child elements
Element(tag, children) == [tag |-> tag, children |-> children]

\* the options parseObject hands to new Material: metalness and roughness
LoaderOptions ==
  [opacity |-> 100, hasTransparent |-> FALSE, transparent |-> FALSE,
   doubleSided |-> FALSE]

\* new Hierarchy() with the children and the parent parseObject assigns
NewHierarchy(children, parent) == [children |-> children, parent |-> parent]

\* the world with one more entity: World.createEntity and the addComponent
\* calls of parseObject before it descends
WithEntity(w, e) ==
  [os |-> [i \in (DOMAIN w.os) \cup {e.id} |-> IF i = e.id THEN e ELSE w.os[i]],
   es |-> Append(w.es, e.id),
   next |-> w.next + 1,
   created |-> Append(w.created, e.id)]

\* the entity names itself
OwnId(id, parentId) == id

\* `if (parentId) { t.parent = parentId; }`: the parent parseObject writes
\* into the transform of entity id (0 is null)
AssignedParent(id, parentId) == parentId

\* SVG3ParserNEXUS.parseObject(elem, parentId) and its loop over
\* elem.children; parentId 0 is null
RECURSIVE ParseObject(_, _, _)
RECURSIVE ParseChildren(_, _, _, _)
ParseObject(w, elem, parentId) ==
  LET id == NewEntityId(w.next, w.es)
      e0 == NewEntity(id)
      e1 == EntityAddComponent(e0, "transform",
                               NewTransform(<<0, 0, 0>>, <<0, 0, 0>>, <<1, 1, 1>>,
                                            AssignedParent(id, parentId)))
      e2 == IF elem.tag = "mesh"
            THEN EntityAddComponent(EntityAddComponent(e1, "mesh", NewMesh("box")),
                                    "material", Material(White, LoaderOptions))
            ELSE e1
      kids == ParseChildren(WithEntity(w, e2), elem.children, 1, id)
  IN [w |-> IF kids.ids = <<>> THEN kids.w
            ELSE [kids.w EXCEPT !.os[id] =
                    EntityAddComponent(@, "hierarchy",
                                       NewHierarchy(kids.ids, parentId))],
      id |-> id]

ParseChildren(w, children, i, parentId) ==
  IF i > Len(children) THEN [w |-> w, ids |-> <<>>]
  ELSE LET r == ParseObject(w, children[i], parentId)
           rest == ParseChildren(r.w, children, i + 1, parentId)
       IN [w |-> rest.w, ids |-> <<r.id>> \o rest.ids]

\* SVG3ParserNEXUS.parseScene(sceneElem): parseObject(child, null) for the
\* elements of the scene
ParseScene(w, scene) == ParseChildren(w, scene, 1, 0)

\* the scenes: a mesh; a group of one mesh; a group of two meshes; a group
\* in a group with a mesh; a mesh with a mesh inside, beside a mesh
Scenes ==
  { << Element("mesh", <<>>) >>,
    << Element("group", << Element("mesh", <<>>) >>) >>,
    << Element("group", << Element("mesh", <<>>), Element("mesh", <<>>) >>) >>,
    << Element("group", << Element("group", << Element("mesh", <<>>) >>) >>) >>,
    << Element("mesh", << Element("mesh", <<>>) >>), Element("mesh", <<>>) >> }

\* the World operations leave the renderer, the scheduler and the library alone
SceneFrame ==
  /\ UNCHANGED schedVars
  /\ UNCHANGED renderVars
  /\ UNCHANGED nextId

\* SVG3NEXUS.load: parser.parse(xmlString) fills the new World
SceneParse ==
  /\ pc = "idle"
  /\ nextEntityId = 1
  /\ probe = NoProbe
  /\ \E scene \in Scenes :
       \E r \in {ParseScene([os |-> objs, es |-> entities, next |-> nextEntityId,
                             created |-> createdIds], scene)} :
         /\ objs' = r.w.os
         /\ entities' = r.w.es
         /\ nextEntityId' = r.w.next
         /\ createdIds' = r.w.created
         /\ queries' = InvalidateQueries(queries, r.w.es, r.w.os)
         /\ probe' = [op |-> "parse", children |-> r.ids]
  /\ SceneFrame

\* world.createEntity() after the scene is loaded
SceneCreateEntity ==
  /\ pc = "idle"
  /\ probe # NoProbe
  /\ WorldCreateEntity(MaxSceneEntities)
  /\ probe' = [op |-> "createEntity"]
  /\ SceneFrame

\* world.destroyEntity(id) of a stored entity
SceneDestroyEntity ==
  /\ pc = "idle"
  /\ \E id \in Range(entities) : WorldDestroyEntity(id)
  /\ probe' = [op |-> "destroyEntity"]
  /\ SceneFrame

\* world.removeComponent(entity, 'transform' or 'hierarchy')
SceneRemoveComponent ==
  /\ pc = "idle"
  /\ \E id \in Range(entities), type \in {"transform", "hierarchy"} :
       /\ hasComponent(objs[id], type)
       /\ WorldRemoveComponent(id, type)
  /\ probe' = [op |-> "removeComponent"]
  /\ SceneFrame

\* world.addComponent(entity, 'transform', new Transform())
SceneAddTransform ==
  /\ pc = "idle"
  /\ \E id \in Range(entities) :
       \E os \in {[objs EXCEPT ![id] =
                     EntityAddComponent(@, "transform",
                        NewTransform(<<0, 0, 0>>, <<0, 0, 0>>, <<1, 1, 1>>, 0))]} :
         /\ os # objs
         /\ objs' = os
         /\ queries' = InvalidateQueries(queries, entities, os)
  /\ probe' = [op |-> "addComponent"]
  /\ UNCHANGED <<entities, nextEntityId, createdIds>>
  /\ SceneFrame

NextScene ==
  \/ SceneParse
  \/ SceneCreateEntity
  \/ SceneDestroyEntity
  \/ SceneRemoveComponent
  \/ SceneAddTransform

SpecScene == Init /\ [][NextScene]_vars

(***************************************************************************)
(* Specification of the World with the Entity objects in the hands of the  *)
(* callers: World.createEntity returns the Entity, whose own addComponent  *)
(* and removeComponent are exported with it, and a caller may keep the     *)
(* object after the entity is destroyed                                    *)
(***************************************************************************)
\* entity.addComponent(type, component) on an Entity object the caller holds:
\* Map.set on the components of the entity and nothing else
DirectAddComponent(id, type) ==
  /\ id \in DOMAIN objs
  /\ objs' = [objs EXCEPT ![id] = EntityAddComponent(@, type, NewComponent(type))]
  /\ UNCHANGED <<entities, nextEntityId, queries, createdIds>>

\* entity.removeComponent(type): Map.delete and nothing else
DirectRemoveComponent(id, type) ==
  /\ id \in DOMAIN objs
  /\ objs' = [objs EXCEPT ![id] = EntityRemoveComponent(@, type)]
  /\ UNCHANGED <<entities, nextEntityId, queries, createdIds>>

\* the call the history remembers: the function, the entity, the type and
\* whether the entity was destroyed before the call
Called(op, id, type) ==
  [op |-> op, id |-> id, type |-> type,
   stale |-> id \in DOMAIN objs /\ ~ objs[id].active]

EntityFrame ==
  /\ UNCHANGED schedVars
  /\ UNCHANGED renderVars
  /\ UNCHANGED nextId

EntityCreate ==
  /\ WorldCreateEntity(MaxEntities)
  /\ probe' = Called("World.createEntity", nextEntityId, "")
  /\ EntityFrame

EntityDestroy ==
  /\ \E id \in 1..MaxEntities :
       /\ WorldDestroyEntity(id)
       /\ probe' = Called("World.destroyEntity", id, "")
  /\ EntityFrame

EntityWorldAdd ==
  /\ \E id \in 1..MaxEntities, type \in WorldTypes :
       /\ WorldAddComponent(id, type)
       /\ probe' = Called("World.addComponent", id, type)
  /\ EntityFrame

EntityWorldRemove ==
  /\ \E id \in 1..MaxEntities, type \in WorldTypes :
       /\ WorldRemoveComponent(id, type)
       /\ probe' = Called("World.removeComponent", id, type)
  /\ EntityFrame

EntityDirectAdd ==
  /\ \E id \in 1..MaxEntities, type \in WorldTypes :
       /\ DirectAddComponent(id, type)
       /\ probe' = Called("Entity.addComponent", id, type)
  /\ EntityFrame

EntityDirectRemove ==
  /\ \E id \in 1..MaxEntities, type \in WorldTypes :
       /\ DirectRemoveComponent(id, type)
       /\ probe' = Called("Entity.removeComponent", id, type)
  /\ EntityFrame

\* world.query(['transform']) and world.query(['transform'], ['mesh']); the
\* history keeps the last call that changed an entity
EntityQuery ==
  /\ \E excluded \in ExcludedArgs : WorldQuery(<<"transform">>, excluded)
  /\ UNCHANGED probe
  /\ EntityFrame

NextEntity ==
  \/ EntityCreate
  \/ EntityDestroy
  \/ EntityWorldAdd
  \/ EntityWorldRemove
  \/ EntityDirectAdd
  \/ EntityDirectRemove
  \/ EntityQuery

SpecEntity == Init /\ [][NextEntity]_vars

(***************************************************************************)
(* Specification of the scheduler with callbacks that call removeSystem    *)
(* and setSystemEnabled of the World they are handed.  sortedSystems holds *)
(* the [name, system] entries of the call: its system objects are the ones *)
(* of the registry, so a write to system.enabled shows in both, while a    *)
(* Map.delete leaves the array as it is.  (No callback of the model calls  *)
(* addSystem: a registered name is the object the array holds.)            *)
(***************************************************************************)
\* world.removeSystem(name) called by the running callback
RemoveSystemDuring ==
  /\ pc = "callback"
  /\ \E name \in SystemNames :
       /\ IndexOfName(systems, name) # 0
       /\ systems' = SelectSeq(systems, LAMBDA s : s.name # name)
  /\ UNCHANGED <<time, pc, sortedSystems, idx, invoked, timeAtCall, lastTime,
                 startView, view>>
  /\ UNCHANGED worldVars
  /\ UNCHANGED renderVars
  /\ UNCHANGED libraryVars

\* world.setSystemEnabled(name, enabled) called by the running callback:
\* this.systems.get(name), then system.enabled = enabled on that object
SetSystemEnabledDuring ==
  /\ pc = "callback"
  /\ \E name \in SystemNames, enabled \in BOOLEAN :
       /\ IndexOfName(systems, name) # 0
       /\ systems[IndexOfName(systems, name)].enabled # enabled
       /\ systems' = [systems EXCEPT ![IndexOfName(systems, name)].enabled = enabled]
       /\ sortedSystems' = [i \in DOMAIN sortedSystems |->
                              IF sortedSystems[i].name = name
                              THEN [sortedSystems[i] EXCEPT !.enabled = enabled]
                              ELSE sortedSystems[i]]
  /\ UNCHANGED <<time, pc, idx, invoked, timeAtCall, lastTime, startView, view>>
  /\ UNCHANGED worldVars
  /\ UNCHANGED renderVars
  /\ UNCHANGED libraryVars

\* world.update(1) of a caller
ToggleUpdate ==
  /\ UpdateCall(1)
  /\ UNCHANGED lastTime

NextToggle ==
  \/ AddSystem
  \/ RemoveSystem
  \/ SetSystemEnabled
  \/ ToggleUpdate
  \/ LoopStep
  \/ CallbackReturn
  \/ UpdateReturn
  \/ UpdateExit
  \/ RemoveSystemDuring
  \/ SetSystemEnabledDuring

SpecToggle == Init /\ [][NextToggle]_vars

(***************************************************************************)
(* Specification of a callback that iterates the entities of a Query while *)
(* its loop body changes the World:                                        *)
(*   const bodies = world.query(['transform']);                            *)
(*   for (const e of bodies.entities) { ...World operations... }           *)
(* The history keeps the array the loop took from bodies.entities when it  *)
(* started, the entities it has visited and whether it has ended.          *)
(***************************************************************************)
\* the array the loop reads: the array object it took when it started.
\* Query.rebuild assigns a new array to this.entities (`this.entities = []`)
\* and pushes into that one
RebuiltInPlace(held, live) == live

IteratedArray(held, live) == held

NotIterating == IF probe.op = "iterate" THEN probe.done ELSE TRUE

IterateFrame ==
  /\ UNCHANGED schedVars
  /\ UNCHANGED renderVars
  /\ UNCHANGED nextId

\* world.query(['transform']), then the loop takes bodies.entities
IterateStart ==
  /\ NotIterating
  /\ QueryIndex(queries, TransformKey) = 0 => Len(queries) < MaxQueries
  /\ \E qs \in {WithQuery(queries, <<"transform">>, <<>>, entities, objs)} :
       /\ queries' = qs
       /\ probe' = [op |-> "iterate", held |-> TransformView(qs),
                    atStart |-> TransformView(qs), visited |-> <<>>,
                    done |-> FALSE]
  /\ UNCHANGED <<entities, objs, nextEntityId, createdIds>>
  /\ IterateFrame

\* one next() of the array iterator: the element at its index when the
\* index is below the length of the array, else the loop ends
IterateNext ==
  /\ ~ NotIterating
  /\ \E array \in {IteratedArray(probe.held, TransformView(queries))} :
       IF Len(probe.visited) < Len(array)
       THEN probe' = [probe EXCEPT !.visited = Append(@, array[Len(@) + 1])]
       ELSE probe' = [probe EXCEPT !.done = TRUE]
  /\ UNCHANGED worldVars
  /\ IterateFrame

\* the World operations of the loop body (and of the program before and
\* after the loop)
IterateCreateEntity ==
  /\ WorldCreateEntity(MaxFrameEntities)
  /\ UNCHANGED probe
  /\ IterateFrame

IterateDestroyEntity ==
  /\ \E id \in 1..MaxFrameEntities : id \in Range(entities) /\ WorldDestroyEntity(id)
  /\ UNCHANGED probe
  /\ IterateFrame

IterateAddComponent ==
  /\ \E id \in 1..MaxFrameEntities :
       /\ id \in Range(entities)
       /\ ~ hasComponent(objs[id], "transform")
       /\ WorldAddComponent(id, "transform")
  /\ UNCHANGED probe
  /\ IterateFrame

IterateRemoveComponent ==
  /\ \E id \in 1..MaxFrameEntities :
       /\ id \in Range(entities)
       /\ hasComponent(objs[id], "transform")
       /\ WorldRemoveComponent(id, "transform")
  /\ UNCHANGED probe
  /\ IterateFrame

NextIterate ==
  \/ IterateStart
  \/ IterateNext
  \/ IterateCreateEntity
  \/ IterateDestroyEntity
  \/ IterateAddComponent
  \/ IterateRemoveComponent

SpecIterate == Init /\ [][NextIterate]_vars

(***************************************************************************)
(* Specification of the sky loading of the demo page: the async function   *)
(* that waits for the PNG sky, then for the tone-mapped HDR sky, while     *)
(* the page goes on rendering the loaded scene                             *)
(***************************************************************************)
\* indices of createSphereGeometry(1, 48): 48 * 48 * 6
SkySphereIndexCount == 13824

\* new Material([1,1,1], { doubleSided: true }); skyMat.isSky = true;
\* skyMat.textureImage = img
DemoSkyMaterial ==
  [Material(White, [opacity |-> 100, hasTransparent |-> FALSE,
                    transparent |-> FALSE, doubleSided |-> TRUE])
     EXCEPT !.isSky = TRUE, !.textureImage = "image"]

\* the async function before its first await: new Image() for pngSky
SkyFlowStart ==
  [op |-> "sky", at |-> "png", pngSky |-> 0, hdrSky |-> 0,
   hdrAfterPng |-> FALSE]

\* the body both flows share: geometryLibrary.addGeometry(geomId, ..),
\* world.createEntity() and world.addComponent of transform, mesh and
\* material
CreateSkyEntity(geomId) ==
  LET id == NewEntityId(nextEntityId, entities)
      e0 == NewEntity(id)
      e1 == EntityAddComponent(e0, "transform",
                               NewTransform(<<0, 0, 0>>, <<0, 0, 0>>, <<1, 1, 1>>, 0))
      e2 == EntityAddComponent(e1, "mesh", NewMesh(geomId))
      e3 == EntityAddComponent(e2, "material", DemoSkyMaterial)
      os == [i \in (DOMAIN objs) \cup {id} |-> IF i = id THEN e3 ELSE objs[i]]
      es == Append(entities, id)
  IN /\ geometries' = [g \in (DOMAIN geometries) \cup {geomId} |->
                         IF g = geomId THEN [indexCount |-> SkySphereIndexCount]
                         ELSE geometries[g]]
     /\ nextEntityId' = nextEntityId + 1
     /\ objs' = os
     /\ entities' = es
     /\ queries' = InvalidateQueries(queries, es, os)
     /\ createdIds' = Append(createdIds, id)
     /\ drawLog' = <<>>
     /\ renderLists' = NoLists
     /\ renderPc' = "none"

\* i.onload of the PNG: the first try block runs to its end and the function
\* goes on into the second try block, up to `await loadAndToneMapHDR(hdrPath)`
SkyPngLoaded ==
  /\ pc = "idle"
  /\ renderPc # "hung"
  /\ probe.op = "sky"
  /\ probe.at = "png"
  /\ CreateSkyEntity("sky_sphere")
  /\ probe' = [probe EXCEPT !.at = "hdr", !.pngSky = nextEntityId,
                            !.hdrAfterPng = TRUE]
  /\ UNCHANGED <<geometryBuffers, camera, gl, nextId>>
  /\ UNCHANGED schedVars

\* i.onerror of the PNG: the empty catch, then the second try block up to
\* `await loadAndToneMapHDR(hdrPath)`
SkyPngFailed ==
  /\ pc = "idle"
  /\ renderPc # "hung"
  /\ probe.op = "sky"
  /\ probe.at = "png"
  /\ probe' = [probe EXCEPT !.at = "hdr"]
  /\ UNCHANGED nextId
  /\ UNCHANGED worldVars
  /\ UNCHANGED schedVars
  /\ UNCHANGED renderVars

\* the HDR was fetched and tone-mapped and its image loaded: the rest of the
\* second try block
SkyHdrLoaded ==
  /\ pc = "idle"
  /\ renderPc # "hung"
  /\ probe.op = "sky"
  /\ probe.at = "hdr"
  /\ CreateSkyEntity("sky_sphere_hdr")
  /\ probe' = [probe EXCEPT !.at = "done", !.hdrSky = nextEntityId]
  /\ UNCHANGED <<geometryBuffers, camera, gl, nextId>>
  /\ UNCHANGED schedVars

\* the fetch, the decoder or the image of the HDR failed: the last catch
SkyHdrFailed ==
  /\ pc = "idle"
  /\ renderPc # "hung"
  /\ probe.op = "sky"
  /\ probe.at = "hdr"
  /\ probe' = [probe EXCEPT !.at = "done"]
  /\ UNCHANGED nextId
  /\ UNCHANGED worldVars
  /\ UNCHANGED schedVars
  /\ UNCHANGED renderVars

\* the entities of the loaded document: opaque and transparent boxes
DemoMaterials ==
  { NewMaterial(FALSE, FALSE, FALSE, 100, "none", White),
    NewMaterial(FALSE, FALSE, TRUE, 100, "none", White) }

DemoAddRenderable ==
  AddRenderable(MaxRenderEntities, RenderTransforms, DemoMaterials)

DemoMoveCamera == MoveCamera(CameraPositions)

InitDemoSky ==
  /\ InitWorld
  /\ InitSched
  /\ geometries = [g \in {"box"} |-> [indexCount |-> BoxIndexCount]]
  /\ geometryBuffers = <<>>
  /\ camera = <<0, 0, 0>>
  /\ gl = DefaultGL
  /\ drawLog = <<>>
  /\ renderLists = NoLists
  /\ renderPc = "none"
  /\ nextId = 1
  /\ probe = SkyFlowStart

NextDemoSky ==
  \/ SkyPngLoaded
  \/ SkyPngFailed
  \/ SkyHdrLoaded
  \/ SkyHdrFailed
  \/ DemoAddRenderable
  \/ DemoMoveCamera
  \/ Render

SpecDemoSky == InitDemoSky /\ [][NextDemoSky]_vars

(***************************************************************************)
(* Specification of the ticks of the demo page: World.update with the      *)
(* systems 'svg3-render', 'svg3-animation', 'fps-controls' and 'physics'   *)
(* registered as the renderer, SVG3NEXUS.load and the page register them,  *)
(* over boxes with rigid bodies. Lengths are in hundredths of a unit,      *)
(* velocities in hundredths of a unit per second, deltaTime in seconds.    *)
(***************************************************************************)
\* -9.81 of `rb.velocity[1] += -9.81 * dt`, in hundredths
Gravity == -981

\* the values of groundTopY: 0 (`let groundTopY = 0`) or the globalMinY the
\* page assigns when it creates the ground
GroundHeights == {0, -300}

\* the heights the boxes are created at
BodyHeights == {-500, 1500}

TickTransforms ==
  { NewTransform(<<0, y, 0>>, <<0, 0, 0>>, <<1, 1, 1>>, 0) : y \in BodyHeights }

TickMaterials == { NewMaterial(FALSE, FALSE, FALSE, 100, "none", White) }

\* a rigidbody component as the page writes it: { mass, static }; velocity is
\* <<>> while the field is undefined
NewRigidbody(static) == [static |-> static, velocity |-> <<>>]

\* the systems in the order of their registration: the renderer's
\* constructor, SVG3NEXUS.load, then the page
TickSystems ==
  MapSetSystem(
    MapSetSystem(
      MapSetSystem(
        MapSetSystem(<<>>, "svg3-render", 100),
        "svg3-animation", 90),
      "fps-controls", 95),
    "physics", 80)

PhysicsKey == QueryKey(<<"transform", "rigidbody">>, <<>>)

AnimationKey == QueryKey(<<"animation", "transform">>, <<>>)

\* the body of the physics loop for one entity that is not static: the
\* rigidbody and the transform after it
Integrate(tr, rb, dt, groundPlaneY) ==
  LET v0 == IF rb.velocity = <<>> THEN <<0, 0, 0>> ELSE rb.velocity
      v1 == [v0 EXCEPT ![2] = @ + Gravity * dt]
      p1 == <<tr.position[1] + v1[1] * dt,
              tr.position[2] + v1[2] * dt,
              tr.position[3] + v1[3] * dt>>
      hit == p1[2] <= groundPlaneY
  IN [tr |-> [tr EXCEPT !.position = IF hit THEN [p1 EXCEPT ![2] = groundPlaneY]
                                     ELSE p1],
      rb |-> [rb EXCEPT !.velocity = IF hit THEN [v1 EXCEPT ![2] = 0] ELSE v1],
      hit |-> hit]

\* `if (rb.static) continue;`
SkipsBody(rb) == rb.static

\* `for (const e of bodies.entities)`: the entity objects after the loop
RECURSIVE PhysicsLoop(_, _, _, _, _)
PhysicsLoop(os, bodies, i, dt, groundPlaneY) ==
  IF i > Len(bodies) THEN os
  ELSE LET e == bodies[i]
           r == Integrate(os[e].components["transform"],
                          os[e].components["rigidbody"], dt, groundPlaneY)
       IN IF SkipsBody(os[e].components["rigidbody"])
          THEN PhysicsLoop(os, bodies, i + 1, dt, groundPlaneY)
          ELSE PhysicsLoop([os EXCEPT ![e].components["transform"] = r.tr,
                                      ![e].components["rigidbody"] = r.rb],
                           bodies, i + 1, dt, groundPlaneY)

\* the entities the loop set on the ground
ClampedBy(os, bodies, dt, groundPlaneY) ==
  { e \in Range(bodies) :
      /\ ~ SkipsBody(os[e].components["rigidbody"])
      /\ Integrate(os[e].components["transform"],
                   os[e].components["rigidbody"], dt, groundPlaneY).hit }

\* the name of the system whose callback update is in
Running == IF pc = "callback" THEN sortedSystems[idx].name ELSE ""

\* the callback of 'svg3-render': this.render()
TickRenderCallback ==
  /\ Running = "svg3-render"
  /\ \E r \in {RenderResult} :
        /\ ~ r.hangs
        /\ queries' = r.queries
        /\ objs' = r.rs.os
        /\ geometryBuffers' = r.rs.buffers
        /\ gl' = r.rs.gl
        /\ drawLog' = r.rs.log
        /\ renderLists' = r.lists
  /\ renderPc' = "returned"
  /\ idx' = idx + 1
  /\ pc' = "loop"
  /\ UNCHANGED <<entities, nextEntityId, createdIds, geometries, camera>>
  /\ UNCHANGED <<systems, time, sortedSystems, invoked, timeAtCall, lastTime,
                 startView, view>>
  /\ UNCHANGED libraryVars

\* the callback of 'svg3-animation': no entity of these scenes has an
\* animation, the callback only asks for its query
TickAnimationCallback ==
  /\ Running = "svg3-animation"
  /\ queries' = WithQuery(queries, <<"animation", "transform">>, <<>>,
                          entities, objs)
  /\ idx' = idx + 1
  /\ pc' = "loop"
  /\ UNCHANGED <<entities, objs, nextEntityId, createdIds>>
  /\ UNCHANGED <<systems, time, sortedSystems, invoked, timeAtCall, lastTime,
                 startView, view>>
  /\ UNCHANGED renderVars
  /\ UNCHANGED libraryVars

\* the callback of 'fps-controls' while fpsMode is false (its value until
\* the pointer is locked): `if (!fpsMode) return;`
TickFpsCallback ==
  /\ Running = "fps-controls"
  /\ CallbackReturn

\* the callback of 'physics'; the probe keeps the entity objects as they
\* were before the run and the entities the run set on the ground
TickPhysicsCallback ==
  /\ Running = "physics"
  /\ LET qs == WithQuery(queries, <<"transform", "rigidbody">>, <<>>,
                         entities, objs)
         bodies == qs[QueryIndex(qs, PhysicsKey)].entities
     IN /\ queries' = qs
        /\ objs' = PhysicsLoop(objs, bodies, 1, time.deltaTime, probe.groundTopY)
        /\ probe' = [probe EXCEPT
                       !.before = objs,
                       !.frame = time.frameCount,
                       !.clamped = ClampedBy(objs, bodies, time.deltaTime,
                                             probe.groundTopY)]
  /\ idx' = idx + 1
  /\ pc' = "loop"
  /\ UNCHANGED <<entities, nextEntityId, createdIds, nextId>>
  /\ UNCHANGED <<systems, time, sortedSystems, invoked, timeAtCall, lastTime,
                 startView, view>>
  /\ UNCHANGED renderVars

\* a box is added to the scene
TickAddRenderable ==
  AddRenderable(MaxFrameEntities, TickTransforms, TickMaterials)

\* the stored entities that have no rigidbody yet
WithoutBody == { e \in Range(entities) : ~ hasComponent(objs[e], "rigidbody") }

\* world.addComponent(entity, 'rigidbody', { .. })
TickWorldAddBody ==
  /\ pc = "idle"
  /\ \E id \in WithoutBody, static \in BOOLEAN :
       LET os == [objs EXCEPT ![id] =
                    EntityAddComponent(@, "rigidbody", NewRigidbody(static))]
       IN /\ objs' = os
          /\ queries' = InvalidateQueries(queries, entities, os)
  /\ UNCHANGED <<entities, nextEntityId, createdIds>>
  /\ UNCHANGED schedVars
  /\ UNCHANGED renderVars
  /\ UNCHANGED libraryVars

\* entity.addComponent('rigidbody', { .. })
TickDirectAddBody ==
  /\ pc = "idle"
  /\ \E id \in WithoutBody, static \in BOOLEAN :
       objs' = [objs EXCEPT ![id] =
                  EntityAddComponent(@, "rigidbody", NewRigidbody(static))]
  /\ UNCHANGED <<entities, nextEntityId, queries, createdIds>>
  /\ UNCHANGED schedVars
  /\ UNCHANGED renderVars
  /\ UNCHANGED libraryVars

\* animate(currentTime) of the animation loop, frames one second apart
TickUpdate ==
  /\ UpdateCall(1)
  /\ UNCHANGED lastTime

InitTick ==
  /\ InitWorld
  /\ systems = TickSystems
  /\ time = [elapsed |-> 0, deltaTime |-> 0, frameCount |-> 0]
  /\ pc = "idle"
  /\ sortedSystems = <<>>
  /\ idx = 0
  /\ invoked = <<>>
  /\ timeAtCall = [elapsed |-> 0, deltaTime |-> 0, frameCount |-> 0]
  /\ lastTime = -1
  /\ startView = <<>>
  /\ view = <<>>
  /\ geometries = [g \in {"box"} |-> [indexCount |-> BoxIndexCount]]
  /\ geometryBuffers = <<>>
  /\ camera = <<0, 0, 0>>
  /\ gl = DefaultGL
  /\ drawLog = <<>>
  /\ renderLists = NoLists
  /\ renderPc = "none"
  /\ nextId = 1
  /\ \E g \in GroundHeights :
       probe = [op |-> "tick", groundTopY |-> g, before |-> <<>>, frame |-> 0,
                clamped |-> {}]

NextTick ==
  \/ TickAddRenderable
  \/ TickWorldAddBody
  \/ TickDirectAddBody
  \/ TickUpdate
  \/ LoopStep
  \/ TickRenderCallback
  \/ TickAnimationCallback
  \/ TickFpsCallback
  \/ TickPhysicsCallback
  \/ UpdateReturn
  \/ UpdateExit

SpecTick == InitTick /\ [][NextTick]_vars

(***************************************************************************)
(* Claims                                                                  *)
(***************************************************************************)
\* the stored, active entities with every required and no excluded component
FilterOf(q) ==
  { id \in Range(entities) :
      /\ objs[id].active
      /\ q.required \subseteq DOMAIN objs[id].components
      /\ q.excluded \cap DOMAIN objs[id].components = {} }

\* C1: after any sequence of World.createEntity / destroyEntity / addComponent
\* / removeComponent calls, the members of the entities list of every Query
\* that World.query has returned are exactly the stored, active entities that
\* have every required and no excluded component type (each listed once).
C1_QueryEqualsFilter ==
  \A i \in DOMAIN queries :
    /\ Range(queries[i].entities) = FilterOf(queries[i])
    /\ Len(queries[i].entities) = Cardinality(FilterOf(queries[i]))

\* a query with a required type holds a stored entity and no longer holds a
\* destroyed one that carries every required type
C1_Witness ==
  \E i \in DOMAIN queries :
    /\ queries[i].required # {}
    /\ queries[i].entities # <<>>
    /\ \E id \in DOMAIN objs :
         /\ ~ objs[id].active
         /\ queries[i].required \subseteq DOMAIN objs[id].components

\* World.getEntities()
getEntities == { id \in Range(entities) : objs[id].active }

\* C2: destroyEntity(e) of a stored entity sets e.active to false and removes
\* e from getEntity, getEntities() and the entities of every existing Query;
\* destroyEntity of an id that is not stored (destroyed before, or never
\* created) changes nothing in the world.
C2_DestroyRemovesAndIsIdempotent ==
  [][\A id \in 1..MaxEntities :
       WorldDestroyEntity(id) =>
         IF id \in Range(entities)
         THEN /\ ~ objs'[id].active
              /\ id \notin Range(entities')
              /\ id \notin { x \in Range(entities') : objs'[x].active }
              /\ \A i \in DOMAIN queries' : id \notin Range(queries'[i].entities)
              /\ DOMAIN queries' = DOMAIN queries
         ELSE UNCHANGED worldVars]_vars

\* an entity that matched an existing query has been destroyed: it is inactive,
\* not stored, and no longer in the query it would otherwise match
C2_Witness ==
  \E id \in DOMAIN objs, i \in DOMAIN queries :
    /\ ~ objs[id].active
    /\ id \notin Range(entities)
    /\ queries[i].required # {}
    /\ queries[i].required \subseteq DOMAIN objs[id].components
    /\ queries[i].excluded \cap DOMAIN objs[id].components = {}
    /\ id \notin Range(queries[i].entities)

\* C3: createEntity returns the ids 1, 2, 3, ... in this order, never an id
\* twice (also after entities were destroyed), and the entity it stores
\* replaces no entity that is still stored.
C3_IdsMonotonicNeverReused ==
  /\ [](createdIds = [i \in 1..Len(createdIds) |-> i])
  /\ [][Len(createdIds') > Len(createdIds) =>
          LET id == createdIds'[Len(createdIds')]
          IN /\ id \notin DOMAIN objs
             /\ id \notin Range(entities)
             /\ entities' = Append(entities, id)
             /\ \A j \in DOMAIN objs : objs'[j] = objs[j]]_vars

\* an entity was created after one with a smaller id had been destroyed
C3_Witness ==
  /\ Len(createdIds) >= 2
  /\ \E id \in DOMAIN objs, j \in Range(entities) : ~ objs[id].active /\ id < j

\* C4: World.query returns the same Query object for any two requests whose
\* required sets are equal and whose excluded sets are equal, whatever the
\* order of the types in the argument arrays: the cache never holds two
\* entries for one pair of sets.
C4_OneEntryPerFilter ==
  \A i, j \in DOMAIN queries :
    (queries[i].required = queries[j].required /\
     queries[i].excluded = queries[j].excluded) => i = j

\* the names, in the order World.update has to call them: the enabled systems
\* by descending priority, systems of equal priority in registration order
InExpectedOrder(names, syss) ==
  /\ Range(names) = { syss[i].name : i \in { k \in DOMAIN syss : syss[k].enabled } }
  /\ \A i, j \in DOMAIN names : i < j =>
       LET a == IndexOfName(syss, names[i])
           b == IndexOfName(syss, names[j])
       IN \/ syss[a].priority > syss[b].priority
          \/ (syss[a].priority = syss[b].priority /\ a < b)

\* C5: World.update invokes the callback of every registered, enabled system
\* exactly once and of no disabled system, by descending priority, systems of
\* equal priority in registration order.
C5_EnabledSystemsOnceInPriorityOrder ==
  pc \in {"returned", "thrown"} => InExpectedOrder(invoked, systems)

\* the same for the updates in which no callback throws
C5_OrderWhenNothingThrows ==
  pc = "returned" => InExpectedOrder(invoked, systems)

\* C6: if the callback of one system throws during World.update, every other
\* enabled system that comes later in priority order is still invoked in that
\* update.
C6_LaterSystemsStillInvoked ==
  pc = "thrown" =>
    \A i \in (idx + 1)..Len(sortedSystems) :
      sortedSystems[i].enabled => sortedSystems[i].name \in Range(invoked)

\* what query(['transform']) has to hold for the World as it is now
TransformEntitiesNow ==
  SelectSeq(entities, LAMBDA id : objs[id].active /\
                                  "transform" \in DOMAIN objs[id].components)

\* C7: a structural mutation made by a system's callback during World.update
\* is seen by every system invoked later in the same update: the query result
\* a callback reads when it is invoked is the one of the World as it is then,
\* not of the World as it was when update was called.
C7_LaterSystemsSeeMutations ==
  [][(pc = "loop" /\ pc' = "callback") => view' = TransformEntitiesNow]_vars

\* a system that is not the first of its frame reads a result that differs
\* from the one at the call of update
C7_Witness ==
  /\ pc = "callback"
  /\ Len(invoked) >= 2
  /\ view # startView
  /\ view # <<>>

PassOf(d) ==
  IF d.call = "drawArrays" THEN 0
  ELSE IF d.material.isShadow THEN 3
  ELSE IF d.material.transparent \/ d.material.opacity < 100 THEN 2
  ELSE 1

\* C9: the draw calls of one render() are issued sky quad first (at most one,
\* and nothing before it), then the opaque entities, then the transparent
\* entities, then the isShadow entities: no draw of an earlier pass follows a
\* draw of a later pass.
C9_DrawOrderSkyOpaqueTransparentShadow ==
  /\ \A i \in DOMAIN drawLog, j \in DOMAIN drawLog :
       i < j => PassOf(drawLog[i]) <= PassOf(drawLog[j])
  /\ \A i \in DOMAIN drawLog : PassOf(drawLog[i]) = 0 => i = 1

\* one render() issued draws of all four passes, the transparent entity
\* having been created before the opaque one
C9_Witness ==
  \E i \in DOMAIN drawLog, j \in DOMAIN drawLog, k \in DOMAIN drawLog,
     l \in DOMAIN drawLog :
    /\ i < j /\ j < k /\ k < l
    /\ PassOf(drawLog[i]) = 0
    /\ PassOf(drawLog[j]) = 1
    /\ PassOf(drawLog[k]) = 2
    /\ PassOf(drawLog[l]) = 3
    /\ drawLog[k].entity < drawLog[j].entity

\* the squared distance between the camera and the translation of the world
\* matrix of a stored entity
CameraDist2(id) ==
  LET m == WorldMatrix(objs[id].components["transform"], entities, objs).matrix
  IN   (m[13] - camera[1]) * (m[13] - camera[1])
     + (m[14] - camera[2]) * (m[14] - camera[2])
     + (m[15] - camera[3]) * (m[15] - camera[3])

TransparentDraws == SelectSeq(drawLog, LAMBDA d : PassOf(d) = 2)

\* C10: within one render() the transparent entities are drawn in order of
\* non-increasing squared distance between the camera position and the
\* translation of their world matrix (no draw is nearer than the next one);
\* entities at distances 1, 5 and 3 are drawn in the order 5, 3, 1.
C10_TransparentFarthestFirst ==
  /\ \A i \in DOMAIN TransparentDraws :
       i < Len(TransparentDraws) =>
         CameraDist2(TransparentDraws[i].entity)
           >= CameraDist2(TransparentDraws[i + 1].entity)
  /\ ( /\ Len(drawLog) = 3
       /\ << CameraDist2(1), CameraDist2(2), CameraDist2(3) >> = <<1, 25, 9>> )
     => << drawLog[1].entity, drawLog[2].entity, drawLog[3].entity >> = <<2, 3, 1>>

\* three transparent entities at distances 1, 5 and 3 (squared 1, 25, 9) were
\* drawn by one render(), the one at distance 5 first, the one at distance 1 last
C10_Witness ==
  /\ Len(TransparentDraws) = 3
  /\ << CameraDist2(1), CameraDist2(2), CameraDist2(3) >> = <<1, 25, 9>>
  /\ TransparentDraws[1].entity = 2
  /\ TransparentDraws[3].entity = 1

\* the indexed draw calls (renderEntity) of one entity in the last render()
DrawsOf(id) ==
  { i \in DOMAIN drawLog : drawLog[i].call = "drawElements" /\ drawLog[i].entity = id }

\* a stored entity with transform, visible mesh of registered geometry and a
\* material
IsDrawable(id) ==
  /\ {"transform", "mesh", "material"} \subseteq DOMAIN objs[id].components
  /\ objs[id].components["mesh"].visible
  /\ objs[id].components["mesh"].geometryId \in DOMAIN geometries

\* what C11 says of the drawable entities whose material IsShadow: in neither
\* list, drawn exactly once, that draw in the shadow pass (polygon offset on)
\* behind every draw of a listed entity, black, with the material's opacity
\* and no texture
ShadowContract(IsShadow(_)) ==
  renderPc = "returned" =>
    \A id \in Range(entities) :
      (IsDrawable(id) /\ IsShadow(objs[id].components["material"])) =>
        /\ id \notin Range(renderLists.opaque) \cup Range(renderLists.transparent)
        /\ Cardinality(DrawsOf(id)) = 1
        /\ \A i \in DrawsOf(id) :
             /\ drawLog[i].gl.polygonOffsetFill
             /\ drawLog[i].color = Black
             /\ drawLog[i].opacity = objs[id].components["material"].opacity
             /\ ~ drawLog[i].hasTexture
             /\ \A j \in DOMAIN drawLog :
                  ~ drawLog[j].gl.polygonOffsetFill => j < i

\* a material made a shadow material: the field isShadow set on the object, or
\* isShadow: true passed to the constructor
MadeShadow(mat) ==
  \/ mat.isShadow
  \/ mat = Material(mat.color, DemoShadowOptions)

\* C11: a visible entity with transform, mesh of registered geometry and a
\* material with isShadow = true is in neither the opaque nor the transparent
\* list and is drawn exactly once per render(), in the shadow pass after all
\* opaque and transparent draws, with color (0,0,0), the material's opacity
\* (0.85 in the demo) and no texture.
C11_ShadowEntityDrawnOnceInShadowPass == ShadowContract(MadeShadow)

\* C11 for the materials whose field isShadow was assigned after construction
C11_ShadowFieldDrawnOnceInShadowPass == ShadowContract(LAMBDA mat : mat.isShadow)

\* the full-screen sky quads of the last render()
SkyQuads == { i \in DOMAIN drawLog : drawLog[i].call = "drawArrays" }

\* the positions in world.entities of the entities of the {transform, mesh,
\* material} query whose material is isSky with a texture source among images
SkyCandidates(images) ==
  { k \in DOMAIN entities :
      /\ {"transform", "mesh", "material"} \subseteq DOMAIN objs[entities[k]].components
      /\ objs[entities[k]].components["material"].isSky
      /\ objs[entities[k]].components["material"].textureImage \in images }

\* at most one quad; none without a candidate; else the quad of the first
SkyContract(images) ==
  renderPc = "returned" =>
    /\ Cardinality(SkyQuads) <= 1
    /\ SkyCandidates(images) = {} => SkyQuads = {}
    /\ SkyCandidates(images) # {} =>
         \E i \in SkyQuads :
           \E k \in SkyCandidates(images) :
             /\ drawLog[i].entity = entities[k]
             /\ \A k2 \in SkyCandidates(images) : k <= k2

\* C12 as stated: one render() draws at most one full-screen sky quad, for
\* the first entity in query order whose material is isSky and has a texture
\* source, and none when no isSky material has a texture.
C12_OneSkyQuadForFirstTexturedSky == SkyContract({"image", "tainted"})

\* C12, amended: one render() draws at most one full-screen sky quad, for the
\* first entity in query order whose material is isSky and has a texture
\* source that texImage2D accepts (a sky whose upload fails is passed over),
\* and none when no isSky material has such a texture.
C12_OneSkyQuadForFirstUploadedSky == SkyContract({"image"})

\* the first sky has an image that cannot be uploaded, two later ones have
\* images that can: one quad was drawn, for the second entity
C12_Witness ==
  /\ renderPc = "returned"
  /\ Len(entities) = 3
  /\ \A id \in {1, 2, 3} : objs[id].components["material"].isSky
  /\ objs[1].components["material"].textureImage = "tainted"
  /\ objs[2].components["material"].textureImage = "image"
  /\ objs[3].components["material"].textureImage = "image"
  /\ Len(drawLog) = 1
  /\ drawLog[1].call = "drawArrays"
  /\ drawLog[1].entity = 2

\* how often an entity occurs in a list
Occurrences(list, id) == Cardinality({ i \in DOMAIN list : list[i] = id })

\* C13: every entity of the {transform, mesh, material} query whose mesh has
\* a geometryId and whose material is neither isSky nor isShadow is in exactly
\* one of opaqueList and transparentList, once: in transparentList iff
\* material.transparent or material.opacity < 1, else in opaqueList; isSky and
\* isShadow entities are in neither list, with or without a sky quad drawn.
C13_ListsClassifyByTransparency ==
  renderPc = "returned" =>
    \A id \in Range(entities) :
      ( /\ {"transform", "mesh", "material"} \subseteq DOMAIN objs[id].components
        /\ objs[id].components["mesh"].geometryId # "" ) =>
        LET mat == objs[id].components["material"]
            inOpaque == Occurrences(renderLists.opaque, id)
            inTransparent == Occurrences(renderLists.transparent, id)
        IN IF mat.isSky \/ mat.isShadow
           THEN inOpaque = 0 /\ inTransparent = 0
           ELSE IF mat.transparent \/ mat.opacity < 100
                THEN inOpaque = 0 /\ inTransparent = 1
                ELSE inOpaque = 1 /\ inTransparent = 0

\* a render() without a sky quad listed an opaque entity, an entity that is
\* transparent by its opacity alone, and left out a sky without texture
C13_Witness ==
  /\ renderPc = "returned"
  /\ SkyQuads = {}
  /\ \E a \in Range(renderLists.opaque), b \in Range(renderLists.transparent),
        c \in Range(entities) :
       /\ ~ objs[b].components["material"].transparent
       /\ objs[c].components["material"].isSky
       /\ b < a

\* C14: at each indexed draw call of renderEntity, for an opaque entity
\* blending is disabled and depth write enabled; for a transparent entity
\* blending is enabled with (SRC_ALPHA, ONE_MINUS_SRC_ALPHA), depth write is
\* disabled and the depth test is enabled.
C14_BlendAndDepthStatePerDraw ==
  \A i \in DOMAIN drawLog :
    /\ PassOf(drawLog[i]) = 1 =>
         /\ ~ drawLog[i].gl.blend
         /\ drawLog[i].gl.depthMask
    /\ PassOf(drawLog[i]) = 2 =>
         /\ drawLog[i].gl.blend
         /\ drawLog[i].gl.blendFunc = "SRC_ALPHA, ONE_MINUS_SRC_ALPHA"
         /\ ~ drawLog[i].gl.depthMask
         /\ drawLog[i].gl.depthTest

\* behind a sky quad an opaque and then a transparent entity were drawn, in a
\* frame that follows one in which blending was on last
C14_Witness ==
  /\ Len(drawLog) = 3
  /\ PassOf(drawLog[1]) = 0
  /\ PassOf(drawLog[2]) = 1
  /\ PassOf(drawLog[3]) = 2
  /\ drawLog[2].gl.blendFunc = "SRC_ALPHA, ONE_MINUS_SRC_ALPHA"

\* C15: back-face culling is disabled during the draw call of an entity iff
\* its material is doubleSided, and when renderEntity is done with a draw
\* culling is enabled again, so the doubleSided flag of one entity never
\* decides the culling state in which another entity is drawn.
C15_CullingPerMaterialAndRestored ==
  \A i \in DOMAIN drawLog :
    drawLog[i].call = "drawElements" =>
      /\ drawLog[i].gl.cullFace = ~ drawLog[i].material.doubleSided
      /\ drawLog[i].glAfter.cullFace

\* a doubleSided entity was drawn without culling and the entity drawn right
\* after it, not doubleSided, with culling
C15_Witness ==
  \E i \in DOMAIN drawLog :
    /\ i < Len(drawLog)
    /\ drawLog[i].call = "drawElements"
    /\ drawLog[i].material.doubleSided
    /\ ~ drawLog[i].gl.cullFace
    /\ ~ drawLog[i + 1].material.doubleSided
    /\ drawLog[i + 1].gl.cullFace

\* the materials of the stored entities whose texture source is among images
MaterialsWith(images) ==
  { objs[id].components["material"] :
      id \in { e \in Range(entities) :
                 /\ "material" \in DOMAIN objs[e].components
                 /\ objs[e].components["material"].textureImage \in images } }

\* C16: over any sequence of render() calls the texture of one material is
\* uploaded (createTexture + texImage2D) at most once, by the sky pass or by
\* renderEntity; later frames perform no further upload for that material.
C16_TextureUploadedAtMostOnce ==
  \A mat \in MaterialsWith({"image", "tainted"}) : mat.uploads <= 1

\* C16 for the materials whose image texImage2D accepts
C16_AcceptedTextureUploadedOnce ==
  \A mat \in MaterialsWith({"image"}) :
    /\ mat.uploads <= 1
    /\ mat.glTexture # 0 <=> mat.uploads = 1

\* C17: after new buffers are registered under an id that was already drawn,
\* the library entry is the new one and the next render() draws that id with
\* the index count of the new geometry, not with the buffers cached for the
\* earlier entry: every indexed draw uses the index count the library holds.
C17_DrawUsesRegisteredGeometry ==
  renderPc = "returned" =>
    \A i \in DOMAIN drawLog :
      LET g == objs[drawLog[i].entity].components["mesh"].geometryId
      IN (drawLog[i].call = "drawElements" /\ g \in DOMAIN geometries) =>
           drawLog[i].indexCount = geometries[g].indexCount

\* the entities of the {transform, mesh, material} query
Renderables ==
  { id \in Range(entities) :
      {"transform", "mesh", "material"} \subseteq DOMAIN objs[id].components }

\* C18: an entity whose mesh.geometryId has no entry in the geometry library
\* (never registered, or removed by deleteGeometry, also after a previous
\* render() drew it) causes no draw; the entities of registered geometry are
\* drawn as usual, once each.
C18_NoLibraryEntryNoDraw ==
  renderPc = "returned" =>
    \A id \in Renderables :
      IF objs[id].components["mesh"].geometryId \in DOMAIN geometries
      THEN Cardinality(DrawsOf(id)) = 1
      ELSE DrawsOf(id) = {}

\* C18 for the ids no render() has made buffers for: no library entry and no
\* cached buffers, no draw; the entities of registered geometry drawn once
C18_NeverBufferedNoDraw ==
  renderPc = "returned" =>
    \A id \in Renderables :
      LET g == objs[id].components["mesh"].geometryId
      IN /\ g \in DOMAIN geometries => Cardinality(DrawsOf(id)) = 1
         /\ (g \notin DOMAIN geometries /\ g \notin DOMAIN geometryBuffers)
              => DrawsOf(id) = {}

\* a render() with an entity of a never registered geometry and a drawn one
C18_NeverBufferedState ==
  /\ renderPc = "returned"
  /\ \E a \in Renderables, b \in Renderables :
       /\ objs[a].components["mesh"].geometryId \notin
            (DOMAIN geometries) \cup (DOMAIN geometryBuffers)
       /\ DrawsOf(b) # {}

\* the parent a walk goes on to from transform tr: 0 when tr.parent is null,
\* not stored or without a transform
ReachedParent(tr) ==
  IF tr.parent # 0 /\ tr.parent \in Range(entities)
     /\ hasComponent(objs[tr.parent], "transform")
  THEN tr.parent ELSE 0

\* the world matrix as the hierarchy defines it: the parent's world matrix
\* times the local matrix, the local matrix alone where no parent is reached
RECURSIVE WorldOf(_, _)
WorldOf(tr, depth) ==
  IF ReachedParent(tr) = 0 \/ depth = 0 THEN computeLocalModel(tr)
  ELSE Matrix4Multiply(WorldOf(objs[ReachedParent(tr)].components["transform"],
                               depth - 1),
                       computeLocalModel(tr))

\* C19: the parent walk of a drawn entity stops at the first parent that is
\* null, not stored in the world (never created, destroyed) or without a
\* transform; the matrix the entity is drawn with composes exactly the
\* ancestors reached before that, and the render() returns without exception.
C19_WalkStopsAtMissingParent ==
  renderPc = "returned" =>
    /\ \A id \in Renderables : Cardinality(DrawsOf(id)) = 1
    /\ \A i \in DOMAIN drawLog :
         drawLog[i].call = "drawElements" =>
           drawLog[i].modelMatrix =
             WorldOf(objs[drawLog[i].entity].components["transform"],
                     Len(entities))

\* a render() that drew an entity whose parent was reached and whose
\* grandparent is set but destroyed or without a transform
C19_Witness ==
  /\ renderPc = "returned"
  /\ \E i \in DOMAIN drawLog :
       LET tr == objs[drawLog[i].entity].components["transform"]
           p == ReachedParent(tr)
       IN /\ drawLog[i].call = "drawElements"
          /\ p # 0
          /\ objs[p].components["transform"].parent # 0
          /\ ReachedParent(objs[p].components["transform"]) = 0
          /\ drawLog[i].modelMatrix # computeLocalModel(tr)

\* C20: the resolution of the world matrix terminates for every entity of
\* every reachable world, worlds with a cycle of parents included, so every
\* render() returns.
C20_RenderAlwaysReturns == renderPc # "hung"

\* C20 for the worlds without a cycle: where every walk ends at a missing
\* parent within as many steps as there are entities, render() can return
WalksEnd ==
  \A id \in Renderables :
    ~ WorldMatrix(objs[id].components["transform"], entities, objs).hangs

C20_ReturnsWithoutCycle == renderPc = "hung" => ~ WalksEnd

\* the matrix product in exact arithmetic
ExactProduct(a, b) ==
  LET result == [n \in 1..16 |->
                     a[((n - 1) \div 4) * 4 + 1] * b[((n - 1) % 4) + 1]
                   + a[((n - 1) \div 4) * 4 + 2] * b[4 + ((n - 1) % 4) + 1]
                   + a[((n - 1) \div 4) * 4 + 3] * b[8 + ((n - 1) % 4) + 1]
                   + a[((n - 1) \div 4) * 4 + 4] * b[12 + ((n - 1) % 4) + 1]]
  IN SubSeq(result, 1, 16)

\* the draws of the log whose entity is the child of a chain of exactly three:
\* its parent and its grandparent are reached, the grandparent has no parent
ChainDraws ==
  { i \in DOMAIN drawLog :
      LET tr == objs[drawLog[i].entity].components["transform"]
      IN /\ drawLog[i].call = "drawElements"
         /\ ReachedParent(tr) # 0
         /\ ReachedParent(objs[ReachedParent(tr)].components["transform"]) # 0
         /\ objs[ReachedParent(objs[ReachedParent(tr)].components["transform"])]
              .components["transform"].parent = 0 }

ChildOf(i) == objs[drawLog[i].entity].components["transform"]

ParentOf(i) == objs[ReachedParent(ChildOf(i))].components["transform"]

GrandparentOf(i) == objs[ReachedParent(ParentOf(i))].components["transform"]

\* Matrix4.multiply(Matrix4.multiply(local of grandparent, local of parent),
\* local of child)
ParentWorldTimesLocal(i) ==
  Matrix4Multiply(Matrix4Multiply(computeLocalModel(GrandparentOf(i)),
                                  computeLocalModel(ParentOf(i))),
                  computeLocalModel(ChildOf(i)))

\* no product of the chain loses a bit when it is stored as float32
ChainIsExact(i) ==
  LET g == computeLocalModel(GrandparentOf(i))
      p == computeLocalModel(ParentOf(i))
      c == computeLocalModel(ChildOf(i))
  IN /\ Matrix4Multiply(g, p) = ExactProduct(g, p)
     /\ Matrix4Multiply(p, c) = ExactProduct(p, c)
     /\ ParentWorldTimesLocal(i) = ExactProduct(ExactProduct(g, p), c)

\* C21: for every chain grandparent, parent, child the world matrix the child
\* is drawn with equals Matrix4.multiply(Matrix4.multiply(local of grandparent,
\* local of parent), local of child), in the list-building loop, in the shadow
\* pass and in renderEntity's own walk.
C21_ChildWorldIsParentWorldTimesLocal ==
  \A i \in ChainDraws : drawLog[i].modelMatrix = ParentWorldTimesLocal(i)

\* C21 where no product of the chain is rounded: the two are equal
C21_ChildWorldIsParentWorldTimesLocalWhenExact ==
  \A i \in ChainDraws :
    ChainIsExact(i) => drawLog[i].modelMatrix = ParentWorldTimesLocal(i)

\* a chain of three with scaled parents, drawn in the shadow pass of render()
C21_Witness ==
  /\ renderPc = "returned"
  /\ \E i \in ChainDraws :
       /\ ChainIsExact(i)
       /\ drawLog[i].gl.polygonOffsetFill
       /\ ParentOf(i).scale # <<1, 1, 1>>
       /\ ChildOf(i).scale # <<1, 1, 1>>

SphereLayout(g, segments) ==
  \E buffer \in {Indices(g)} :
    /\ g.vertexCount = (segments + 1) * (segments + 1)
    /\ g.indexCount = 6 * segments * segments
    /\ \A lat \in 0..(segments - 1), lon \in 0..(segments - 1) :
         LET first == lat * (segments + 1) + lon
             second == first + segments + 1
             at == 6 * (lat * segments + lon)
         IN /\ buffer[at + 1] = first
            /\ buffer[at + 2] = second
            /\ buffer[at + 3] = first + 1
            /\ buffer[at + 4] = second
            /\ buffer[at + 5] = second + 1
            /\ buffer[at + 6] = first + 1

\* what C24 says of the cylinder g made with `radialSegs`
CylinderLayout(g, radialSegs) ==
  \E buffer \in {Indices(g)} :
    /\ g.vertexCount = 2 * (radialSegs + 1)
    /\ g.indexCount = 6 * radialSegs
    /\ \A i \in 0..(radialSegs - 1) :
         LET a == i
             b == i + 1
             c == radialSegs + 1 + i
             d == c + 1
         IN /\ buffer[6 * i + 1] = a
            /\ buffer[6 * i + 2] = c
            /\ buffer[6 * i + 3] = b
            /\ buffer[6 * i + 4] = b
            /\ buffer[6 * i + 5] = c
            /\ buffer[6 * i + 6] = d

\* C24: createSphere(segments) lays out (segments+1) x (segments+1) vertices
\* and emits for each lat, lon < segments the triangles (first, second,
\* first+1) and (second, second+1, first+1), 6 segments^2 indices;
\* createCylinder(radialSegs) lays out 2 x (radialSegs+1) vertices and emits
\* for each i < radialSegs the triangles (a, c, b) and (b, c, d), 6 radialSegs
\* indices.
C24_SphereAndCylinderTriangles ==
  /\ probe.op = "createSphere" =>
       SphereLayout(geometries[probe.returned], probe.segments)
  /\ probe.op = "createCylinder" =>
       CylinderLayout(geometries[probe.returned], probe.segments)

\* C24 for the spheres and cylinders of at most 2^16 vertices
C24_TrianglesUpTo65536Vertices ==
  /\ (probe.op = "createSphere" /\ geometries[probe.returned].vertexCount <= 65536)
       => SphereLayout(geometries[probe.returned], probe.segments)
  /\ (probe.op = "createCylinder" /\ geometries[probe.returned].vertexCount <= 65536)
       => CylinderLayout(geometries[probe.returned], probe.segments)

\* the geometry fits together: triangles only, every index a vertex, and the
\* uvs, where there are any, one pair per vertex
FitsTogether(g) ==
  \E buffer \in {Indices(g)} :
    /\ g.indexCount % 3 = 0
    /\ \A k \in DOMAIN buffer : buffer[k] < g.vertexCount
    /\ g.uvLength # -1 => g.uvLength = 2 * g.vertexCount

\* C23: every geometry stored in the library, one registered by addGeometry
\* from the buffers of a caller included, has indexCount % 3 = 0, every index
\* below vertexCount and, when it has uvs, 2 x vertexCount of them.
C23_StoredGeometryFitsTogether ==
  \A id \in DOMAIN geometries : FitsTogether(geometries[id])

\* C23 for the buffers that fit together when they are handed in: they are
\* stored as they are
C23_FittingBuffersStoredAsGiven ==
  (/\ probe.op = "addGeometry"
   /\ probe.id \in DOMAIN geometries
   /\ geometries[probe.id].type = "raw"
   /\ FitsTogether(RawGeometry(probe.vertexLength, probe.indices, probe.uvLength)))
  => /\ FitsTogether(geometries[probe.id])
     /\ Indices(geometries[probe.id]) = probe.indices

\* a create* call that was given no id has just returned
CreatedWithoutId ==
  /\ nextId' # nextId
  /\ probe'.op \in {"createBox", "createSphere", "createCylinder"}
  /\ probe'.id = NoId

\* C25: a create* call that is given no id returns an id that differs from
\* every id already in the library, generated or supplied by a caller, and so
\* never replaces a geometry that is there.
C25_GeneratedIdIsFresh ==
  [][CreatedWithoutId => probe'.returned \notin DOMAIN geometries]_vars

\* C25 for the generated ids among themselves: the number of a generated id
\* is the counter, which no call lowers
C25_GeneratedNumbersGrow ==
  [][/\ nextId' >= nextId
     /\ CreatedWithoutId => (probe'.returned[2] = nextId /\ nextId' = nextId + 1)]_vars

\* the arrays an object refers to
Addresses(obj) == {obj.arrays[k] : k \in DOMAIN obj.arrays}

\* the content of the array fields of an object
Contents(obj, heap) == [k \in DOMAIN obj.arrays |-> heap[obj.arrays[k]]]

\* the fields of the two objects have equal values
EqualFields(a, b, heap) ==
  /\ a.type = b.type
  /\ a.scalars = b.scalars
  /\ DOMAIN a.arrays = DOMAIN b.arrays
  /\ Contents(a, heap) = Contents(b, heap)

\* C26: for every component type clone() returns a component with equal
\* field values that shares no nested array with the original.
C26_CloneSharesNoArray ==
  probe.op = "clone"
  => /\ EqualFields(probe.original, probe.cloned, probe.heap)
     /\ Addresses(probe.original) \cap Addresses(probe.cloned) = {}

\* C26 as far as the values go: right after clone() the fields are equal,
\* for every component type
C26_CloneHasEqualFields ==
  probe.op = "clone" => EqualFields(probe.original, probe.cloned, probe.heap)

\* C26 for the types whose clone shares nothing: Transform, which copies its
\* arrays, and Mesh and Tag, which have none
C26_TransformMeshTagShareNothing ==
  (/\ probe.op \in {"clone", "write"}
   /\ probe.cloned # NoObject
   /\ probe.original.type \in {"Transform", "Mesh", "Tag"})
  => Addresses(probe.original) \cap Addresses(probe.cloned) = {}

\* the returned numbers are these values
ReturnedIs(returned, value) ==
  /\ DOMAIN returned = DOMAIN value
  /\ \A k \in DOMAIN value : returned[k][1] = value[k] * returned[k][2]

\* the returned numbers are v0 + (v1 - v0)(t - t0)/(t1 - t0)
ReturnedIsLinear(returned, t, t0, t1, v0, v1) ==
  /\ DOMAIN returned = DOMAIN v0
  /\ \A k \in DOMAIN v0 :
       returned[k][1] * (t1 - t0)
         = (v0[k] * (t1 - t0) + (v1[k] - v0[k]) * (t - t0)) * returned[k][2]

\* at t = 0 the value of the first keyframe
FirstAtZero ==
  probe.t = 0 => ReturnedIs(probe.returned, probe.track.values[1])

\* at t >= 1 the value of the last keyframe
LastFromOne ==
  probe.t >= TimeOne
  => ReturnedIs(probe.returned, probe.track.values[Len(probe.track.values)])

\* strictly between two consecutive keyframes the linear interpolation
LinearBetween ==
  \A i \in DOMAIN probe.track.keyframes :
    (/\ i > 1
     /\ probe.track.keyframes[i - 1] < probe.t
     /\ probe.t < probe.track.keyframes[i])
    => ReturnedIsLinear(probe.returned, probe.t,
                        probe.track.keyframes[i - 1], probe.track.keyframes[i],
                        probe.track.values[i - 1], probe.track.values[i])

\* C27: interpolateTrack(track, t) returns the value of the first keyframe at
\* t = 0, the value of the last keyframe at every t >= 1, and strictly between
\* two consecutive keyframes v0 + (v1 - v0)(t - t0)/(t1 - t0), for every track
\* with ascending keyframe times, those that begin after 0 or end before 1
\* included.
C27_InterpolateTrackEndsAndBetween ==
  probe.op = "interpolateTrack" => FirstAtZero /\ LastFromOne /\ LinearBetween

\* C27 for the tracks whose first keyframe is at 0; the last keyframe's value
\* from 1 on and the interpolation in between hold for every track
C27_InterpolateTrackFromZero ==
  probe.op = "interpolateTrack"
  => /\ probe.track.keyframes[1] = 0 => FirstAtZero
     /\ LastFromOne
     /\ LinearBetween

\* the stored entities with a transform, a mesh and a material
Meshes ==
  {e \in Range(entities) :
     {"transform", "mesh", "material"} \subseteq DOMAIN objs[e].components}

\* drawing the entity throws: its world matrix cannot be computed, or its
\* colour cannot be handed to the shader
DrawThrows(e) ==
  \/ WorldMatrix(objs[e].components["transform"], entities, objs).threw
  \/ /\ ~ objs[e].components["material"].isShadow
     /\ objs[e].components["material"].color = NotIterable

\* the entities a frame draws with drawElements when nothing goes wrong:
\* visible, with a geometry of the library, no sky
Drawable ==
  {e \in Meshes :
     /\ objs[e].components["mesh"].visible
     /\ objs[e].components["mesh"].geometryId \in DOMAIN geometries
     /\ ~ objs[e].components["material"].isSky}

DrawnEntities ==
  {drawLog[i].entity : i \in {j \in DOMAIN drawLog : drawLog[j].call = "drawElements"}}

\* C28: if drawing one entity throws during render(), every other entity of
\* the frame is still drawn: those left in the same pass, opaque, transparent
\* or shadow, and those of the later passes.
C28_OtherEntitiesStillDrawn ==
  (renderPc = "returned" /\ \E e \in Drawable : DrawThrows(e))
  => \A e \in Drawable : ~ DrawThrows(e) => e \in DrawnEntities

\* C28 for the opaque and the transparent pass, each with its try inside the
\* loop: every entity of the two lists whose drawing does not throw is drawn,
\* and so is every shadow entity when no shadow entity throws
C28_ListEntitiesStillDrawn ==
  (renderPc = "returned" /\ \E e \in Drawable : DrawThrows(e))
  => \A e \in Drawable :
       (/\ ~ DrawThrows(e)
        /\ \/ ~ objs[e].components["material"].isShadow
           \/ \A s \in Drawable :
                objs[s].components["material"].isShadow => ~ DrawThrows(s))
       => e \in DrawnEntities

\* the state of the context the claim lists
ListedState(glState) ==
  [depthTest |-> glState.depthTest, depthMask |-> glState.depthMask,
   cullFace |-> glState.cullFace, blend |-> glState.blend,
   polygonOffsetFill |-> glState.polygonOffsetFill, program |-> glState.program]

\* C30: when render() returns the GL state is the default one: depth test on,
\* depth write on, back-face culling on, blending off, polygon offset off and
\* the main program in use, also after a frame with the sky quad or a shadow
\* entity and after a frame in which a draw threw.
C30_DefaultStateWhenRenderReturns ==
  renderPc = "returned" => ListedState(gl) = ListedState(DefaultGL)

\* a frame has returned that drew the sky quad and a shadow entity and in
\* which the drawing of an entity threw
C30_Witness ==
  /\ renderPc = "returned"
  /\ \E i \in DOMAIN drawLog : drawLog[i].call = "drawArrays"
  /\ \E e \in DrawnEntities : objs[e].components["material"].isShadow
  /\ \E e \in Drawable : DrawThrows(e)

\* the entity has a transform whose parent is this id (0 is null)
TransformParentIs(e, parentId) ==
  /\ hasComponent(objs[e], "transform")
  /\ objs[e].components["transform"].parent = parentId

\* the hierarchy component of the stored entity e agrees with the transforms
HierarchyAgrees(e) ==
  /\ \A k \in DOMAIN objs[e].components["hierarchy"].children :
       /\ objs[e].components["hierarchy"].children[k] \in Range(entities)
       /\ TransformParentIs(objs[e].components["hierarchy"].children[k], e)
  /\ TransformParentIs(e, objs[e].components["hierarchy"].parent)

\* C29: in a world the scene loader produced and any World operations
\* changed, Hierarchy and Transform.parent agree: for every stored entity e
\* with a hierarchy component each id of hierarchy.children names a stored
\* entity whose transform.parent is e.id, and hierarchy.parent is the parent
\* of e's transform.
C29_HierarchyAgreesWithTransformParent ==
  \A e \in Range(entities) :
    hasComponent(objs[e], "hierarchy") => HierarchyAgrees(e)

\* C29 for the world as the loader leaves it, before any World operation
C29_LoadedHierarchyAgrees ==
  probe.op = "parse"
  => /\ \A e \in Range(entities) :
          hasComponent(objs[e], "hierarchy") => HierarchyAgrees(e)
     /\ \E e \in Range(entities) : TRUE

\* C32: a component added or removed by Entity.addComponent or
\* Entity.removeComponent, called on a stored entity itself, is reflected in
\* the entities of every existing Query: after the call, and at every later
\* World.query that returns the Query, the entity is listed by the Query
\* exactly if it is stored, active and has every required and no excluded type.
C32_DirectMutationReflected ==
  (/\ probe.op \in {"Entity.addComponent", "Entity.removeComponent"}
   /\ ~ probe.stale)
  => \A i \in DOMAIN queries :
       probe.id \in Range(queries[i].entities) <=> probe.id \in FilterOf(queries[i])

\* C32 for the same change made through the World: World.addComponent and
\* World.removeComponent leave every existing Query with the entities that
\* match
C32_WorldMutationReflected ==
  probe.op \in {"World.addComponent", "World.removeComponent"}
  => \A i \in DOMAIN queries :
       Range(queries[i].entities) = FilterOf(queries[i])

\* C35: once destroyEntity(e) has returned, e is not in getEntities(), not
\* returned by getEntity(e.id) and not in the entities of any Query, whatever
\* World.addComponent and World.removeComponent calls follow with the stale
\* Entity object.
C35_DestroyedNeverReturns ==
  \A id \in DOMAIN objs :
    ~ objs[id].active
    => /\ id \notin getEntities
       /\ id \notin Range(entities)
       /\ \A i \in DOMAIN queries : id \notin Range(queries[i].entities)

\* World.addComponent was called with the object of a destroyed entity, which
\* now has every type a cached Query requires, while another entity is stored
C35_Witness ==
  /\ probe.op = "World.addComponent"
  /\ probe.stale
  /\ entities # <<>>
  /\ \E i \in DOMAIN queries :
       /\ probe.type \in queries[i].required
       /\ queries[i].required \subseteq DOMAIN objs[probe.id].components
       /\ queries[i].excluded \cap DOMAIN objs[probe.id].components = {}

\* the system whose callback the step invokes
InvokedName == invoked'[Len(invoked')]

Invokes == pc = "loop" /\ pc' = "callback"

\* C34: removeSystem(name) and setSystemEnabled(name, false) take effect at
\* once, also when a callback of the running update makes the call: every
\* callback update invokes belongs to a system that is registered and
\* enabled at that moment.
C34_InvokedIsRegisteredAndEnabled ==
  [][Invokes =>
       \E i \in DOMAIN systems :
         systems[i].name = InvokedName /\ systems[i].enabled]_vars

\* C34 for setSystemEnabled alone: update never invokes the callback of a
\* system that is registered and disabled
C34_DisabledIsNotInvoked ==
  [][Invokes =>
       ~ \E i \in DOMAIN systems :
           systems[i].name = InvokedName /\ ~ systems[i].enabled]_vars

\* C38: a loop over query.entities whose body creates and destroys entities
\* and adds and removes components through the World visits exactly the
\* entities that matched when the loop started, each once and in their order:
\* while it runs it has visited a prefix of them, when it ends all of them.
C38_VisitsTheEntitiesAtStart ==
  probe.op = "iterate"
  => /\ Len(probe.visited) <= Len(probe.atStart)
     /\ probe.visited = SubSeq(probe.atStart, 1, Len(probe.visited))
     /\ probe.done => probe.visited = probe.atStart
     /\ Cardinality(Range(probe.visited)) = Len(probe.visited)

\* a loop over two entities has ended, and its body left the Query with
\* fewer entities, the second one visited no longer among them
C38_Witness ==
  /\ probe.op = "iterate"
  /\ probe.done
  /\ Len(probe.visited) = 2
  /\ probe.visited[2] \notin Range(TransformView(queries))
  /\ Len(TransformView(queries)) < 2

\* the draws of the entities without a parent and with rotation (0, 0, 0)
RootDraws ==
  { i \in DOMAIN drawLog :
      /\ drawLog[i].call = "drawElements"
      /\ ChildOf(i).parent = 0
      /\ ChildOf(i).rotation = <<0, 0, 0>> }

\* elements 12..14 of the matrix the entity of draw i is drawn with
TranslationOf(i) ==
  <<drawLog[i].modelMatrix[13], drawLog[i].modelMatrix[14],
    drawLog[i].modelMatrix[15]>>

\* C33: for an entity with no parent and rotation (0, 0, 0), elements 12..14
\* of the world matrix it is drawn with equal transform.position, for every
\* value of transform.scale.
C33_TranslationIsPosition ==
  \A i \in RootDraws : TranslationOf(i) = ChildOf(i).position

\* C33 for the scale (1, 1, 1): there the translation is the position; for
\* every scale it is the position multiplied by the scale, axis by axis
C33_TranslationIsPositionTimesScale ==
  \A i \in RootDraws :
    /\ TranslationOf(i) = [k \in 1..3 |-> ChildOf(i).position[k] * ChildOf(i).scale[k]]
    /\ ChildOf(i).scale = <<1, 1, 1>> => TranslationOf(i) = ChildOf(i).position

\* the entities of the world with a transform that names a parent
WithParent ==
  { e \in Range(entities) :
      /\ hasComponent(objs[e], "transform")
      /\ objs[e].components["transform"].parent # 0 }

\* C36: in a freshly loaded scene every Transform.parent the loader wrote is
\* the id of an entity created earlier in the same parse (parent id < own
\* id), the parents form no cycle, and the resolution of the world matrix
\* ends for every loaded entity.
C36_LoadedParentsAreEarlierEntities ==
  probe.op = "parse"
  => /\ \A e \in WithParent :
          /\ objs[e].components["transform"].parent \in Range(createdIds)
          /\ objs[e].components["transform"].parent \in Range(entities)
          /\ objs[e].components["transform"].parent < e
     /\ \A e \in Range(entities) :
          /\ hasComponent(objs[e], "transform")
          /\ ~ WorldMatrix(objs[e].components["transform"], entities, objs).hangs

\* a loaded scene with a group in a group: an entity whose parent has a
\* parent of its own
C36_Witness ==
  /\ probe.op = "parse"
  /\ \E e \in WithParent :
       objs[e].components["transform"].parent \in WithParent

\* every draw call of one entity in the last render(): the indexed draws of
\* renderEntity and the full-screen quad of the sky pass
AllDrawsOf(id) == { i \in DOMAIN drawLog : drawLog[i].entity = id }

\* the stored entity has a material that is flagged isSky and isShadow
SkyAndShadow(id) ==
  /\ "material" \in DOMAIN objs[id].components
  /\ objs[id].components["material"].isSky
  /\ objs[id].components["material"].isShadow

\* C37: in one render() each entity receives at most one draw call (the
\* full-screen sky quad counts as the draw of its sky entity), for every
\* combination of the flags isSky, isShadow and transparent; and each visible
\* entity with transform, mesh of registered geometry and a material that is
\* not a sky receives exactly one.
C37_AtMostOneDrawPerEntity ==
  renderPc = "returned" =>
    \A id \in Range(entities) :
      /\ Cardinality(AllDrawsOf(id)) <= 1
      /\ (IsDrawable(id) /\ ~ objs[id].components["material"].isSky)
           => Cardinality(AllDrawsOf(id)) = 1

\* C37 without the materials that are sky and shadow at once: those are
\* drawn as the quad and once more in the shadow pass
C37_AtMostOneDrawUnlessSkyAndShadow ==
  renderPc = "returned" =>
    \A id \in Range(entities) :
      /\ ~ SkyAndShadow(id) => Cardinality(AllDrawsOf(id)) <= 1
      /\ SkyAndShadow(id) => Cardinality(DrawsOf(id)) <= 1
      /\ (IsDrawable(id) /\ ~ objs[id].components["material"].isSky)
           => Cardinality(AllDrawsOf(id)) = 1

\* a frame in which one entity got the sky quad and an indexed draw
C37_DrawnTwice ==
  /\ renderPc = "returned"
  /\ \E id \in Range(entities) :
       /\ SkyAndShadow(id)
       /\ Cardinality(AllDrawsOf(id)) = 2

\* the stored entities whose material is flagged isSky
SkyEntities ==
  { e \in Range(entities) :
      /\ "material" \in DOMAIN objs[e].components
      /\ objs[e].components["material"].isSky }

\* C40: the sky loading of the demo creates at most one sky entity: the HDR
\* path (fetch of the HDR, registration of 'sky_sphere_hdr', a second isSky
\* entity) runs only if loading the PNG sky failed, never after the PNG sky
\* entity was created.
C40_HdrOnlyAfterPngFailed ==
  /\ Cardinality(SkyEntities) <= 1
  /\ ~ probe.hdrAfterPng
  /\ probe.pngSky # 0 => (probe.hdrSky = 0 /\ "sky_sphere_hdr" \notin DOMAIN geometries)

\* what the sky loading does: the HDR path is entered after the PNG path
\* whatever its outcome; each path creates at most one sky entity, the PNG
\* sky first
C40_HdrPathAlwaysEntered ==
  /\ Cardinality(SkyEntities) <= 2
  /\ probe.pngSky # 0 => probe.hdrAfterPng
  /\ (probe.pngSky # 0 /\ probe.hdrSky # 0) => probe.pngSky < probe.hdrSky
  /\ probe.hdrSky # 0 <=> "sky_sphere_hdr" \in DOMAIN geometries
  /\ probe.pngSky # 0 <=> "sky_sphere" \in DOMAIN geometries

\* both skies loaded and a frame was drawn: two sky entities in the world
C40_TwoSkies ==
  /\ probe.at = "done"
  /\ Cardinality(SkyEntities) = 2
  /\ renderPc = "returned"

\* update has returned and every system of the page ran in it
TickDone ==
  /\ pc = "returned"
  /\ probe.op = "tick"
  /\ probe.frame = time.frameCount

\* C31: within one World.update(dt) of a loaded system the render pipeline
\* draws the world after the animation, physics and input systems of that
\* tick have changed the transforms: the frame drawn in update k shows the
\* transforms the simulation systems produced in update k.
C31_FrameShowsThisTick ==
  TickDone =>
    /\ invoked[Len(invoked)] = "svg3-render"
    /\ \A i \in DOMAIN drawLog :
         drawLog[i].modelMatrix =
           computeLocalModel(objs[drawLog[i].entity].components["transform"])

\* what update does: the systems run by descending priority, the render
\* system (100) before fps-controls (95), svg3-animation (90) and physics
\* (80), and the frame shows the transforms as they were before the
\* simulation systems of the tick ran
C31_FrameShowsPreviousTick ==
  TickDone =>
    /\ invoked = <<"svg3-render", "fps-controls", "svg3-animation", "physics">>
    /\ \A i \in DOMAIN drawLog :
         drawLog[i].modelMatrix =
           computeLocalModel(probe.before[drawLog[i].entity].components["transform"])
    /\ \A e \in Renderables : Cardinality(AllDrawsOf(e)) = 1

\* a tick in which a drawn box fell: the frame shows it where it was
C31_StaleFrame ==
  /\ TickDone
  /\ \E i \in DOMAIN drawLog :
       drawLog[i].modelMatrix #
         computeLocalModel(objs[drawLog[i].entity].components["transform"])

\* the state right after a run of the 'physics' system
AfterPhysicsRun ==
  /\ pc \in {"loop", "returned"}
  /\ probe.op = "tick"
  /\ probe.frame = time.frameCount
  /\ idx > Len(sortedSystems)

\* the stored entities with a transform and a rigidbody
Bodies ==
  { e \in Range(entities) :
      /\ hasComponent(objs[e], "transform")
      /\ hasComponent(objs[e], "rigidbody") }

\* the physics contract for one entity
PhysicsContract(e) ==
  IF objs[e].components["rigidbody"].static
  THEN /\ e \in DOMAIN probe.before
       /\ objs[e].components["transform"] = probe.before[e].components["transform"]
  ELSE /\ objs[e].components["transform"].position[2] >= probe.groundTopY
       /\ e \in probe.clamped
            => /\ objs[e].components["rigidbody"].velocity # <<>>
               /\ objs[e].components["rigidbody"].velocity[2] = 0

\* C39: after every run of the 'physics' system every entity with a
\* transform and a rigidbody that is not static has position y >= groundTopY,
\* its vertical velocity is 0 whenever the step set it on the ground, and the
\* transform of every static rigidbody is unchanged by the step.
C39_BodiesAboveGround ==
  AfterPhysicsRun => \A e \in Bodies : PhysicsContract(e)

\* C39 for the entities the cached query of the physics system lists
C39_ListedBodiesAboveGround ==
  AfterPhysicsRun =>
    \A e \in Range(queries[QueryIndex(queries, PhysicsKey)].entities) :
      PhysicsContract(e)

\* a run that set a falling box on the ground
C39_Clamped ==
  /\ AfterPhysicsRun
  /\ \E e \in probe.clamped :
       /\ probe.before[e].components["transform"].position[2] > probe.groundTopY
       /\ objs[e].components["transform"].position[2] = probe.groundTopY

====
